---- MODULE Spec2Model ----
(***************************************************************************)
(* Media store of the audit tool: immutable, content-addressed base media  *)
(* (base_images/, base_videos/), the hash -> reference registry            *)
(* (media_registry.json) and the position-addressed canvas overlays        *)
(* (overlays/) with the record index that links them.                      *)
(***************************************************************************)
EXTENDS Integers, Sequences, FiniteSets, TLC

VARIABLES
    dirs,        \* TRUE once GlobalMedia/ and its sub-directories exist
    baseImages,  \* files of base_images/: name -> stored bytes
    baseVideos,  \* files of base_videos/: name -> stored bytes
    regExists,   \* media_registry.json exists
    registry,    \* its content: [images |-> hash -> ref, videos |-> hash -> ref]
    uuidCtr,     \* number of uuid4 names drawn so far
    overlays,    \* files of overlays/: name -> bitmap
    images,      \* index["images"]: the sequence of records
    counter,     \* index["counters"]["images"]
    errors,      \* the error list returned by the last reindex
    origin,      \* history: base file -> the upload whose attach wrote it
    firstRet,    \* history: upload -> the first reference attach returned for it
    pdfCache,    \* PDF_CACHE: cache key -> the composite written under it
    procs,       \* concurrent attach: process -> its position and locals
    lastOp       \* history: the last operation, its input and its result

vars == <<dirs, baseImages, baseVideos, regExists, registry, uuidCtr,
          overlays, images, counter, errors, origin, firstRet,
          pdfCache, procs, lastOp>>

storeVars == <<dirs, baseImages, baseVideos, regExists, registry, uuidCtr>>
indexVars == <<overlays, images, counter, errors>>
histVars  == <<origin, firstRet>>
sideVars  == <<pdfCache, procs>>

-----------------------------------------------------------------------------
(* Bounds *)
MaxPix  == 1     \* picture contents are PixStride * (0..MaxPix)
MaxVid  == 1     \* video byte streams 0..MaxVid; 0 is the empty stream
MaxUuid == 2     \* base file names that may be generated in one run
MaxRecords == 2  \* records the index holds at one time
MaxCounter == 2  \* value index["counters"]["images"] may reach
MaxSlots   == 1  \* entries of one add_fehler_list
MaxClones  == 1  \* records cloned beyond MaxCounter

(* Program constants *)
OVERLAY_FEHLERBILD    == "FEHLERBILD"
OVERLAY_KONTEXT       == "KONTEXT"
OVERLAY_ZUSATZ_FEHLER == "ZUSATZ_FEHLER"

JPEG_QUALITY_FULL == 90
MAX_IMAGE_WIDTH   == 1800
HASH_QUALITY      == 95

PixStride == 10

-----------------------------------------------------------------------------
(* Pictures, encodings and hashes *)

Pix    == { PixStride * k : k \in 0..MaxPix }
Widths == { MAX_IMAGE_WIDTH, 2 * MAX_IMAGE_WIDTH }

\* A decoded picture (PIL image in RGB mode).
Pictures == [pix : Pix, w : Widths]

\* Bytes that no decoder accepts (corrupt upload, truncated file).
Truncated == [fmt |-> "TRUNC", q |-> 0, pix |-> 0, w |-> 0]

\* Uploads decode_upload_to_pil can be handed: lossless encodings of a
\* picture, or bytes that are no image.
EncodeLossless(img) == [fmt |-> "PNG", q |-> 0, pix |-> img.pix, w |-> img.w]

ImageUploads == { EncodeLossless(img) : img \in Pictures } \cup {Truncated}

\* Quantisation step of a JPEG encoder at quality q (the IJG quality
\* scaling 200 - 2q for q >= 50, 5000 / q below).
QuantStep(q) == IF q < 50 THEN 5000 \div q ELSE 200 - 2 * q

Quantize(p, q) == (p \div QuantStep(q)) * QuantStep(q)

\* img.save(format="JPEG", quality=q): lossy, the bytes depend on the
\* quantised picture and on the quality.
EncodeJpeg(img, q) ==
    [fmt |-> "JPEG", q |-> q, pix |-> Quantize(img.pix, q), w |-> img.w]

Decodable(bytes) == bytes.fmt \in {"PNG", "JPEG"}

\* Image.open(...).convert("RGB")
decode_upload_to_pil(bytes) == [pix |-> bytes.pix, w |-> bytes.w]

\* hashlib.sha256: injective on the byte strings of the model.
_compute_file_hash(data) == <<"sha256", data>>

\* _compute_pil_hash: re-encode as JPEG quality 95, hash the bytes.
_compute_pil_hash(img) == _compute_file_hash(EncodeJpeg(img, HASH_QUALITY))

downscale_to_width(img, target_w) ==
    IF img.w <= target_w THEN img ELSE [pix |-> img.pix, w |-> target_w]

\* pil_to_jpg: the bytes written for a new base image.
pil_to_jpg(img) ==
    EncodeJpeg(IF img.w > MAX_IMAGE_WIDTH
               THEN downscale_to_width(img, MAX_IMAGE_WIDTH) ELSE img,
               JPEG_QUALITY_FULL)

-----------------------------------------------------------------------------
(* Videos *)

\* Raw byte streams of uploaded videos; data 0 is the empty stream.
VideoBytes == { [data |-> d] : d \in 0..MaxVid }

EmptyStream == [data |-> 0]

\* Extensions of the video file names the upload widgets accept.
UploadExts == {".mp4", ".MOV"}

Lower(ext) == IF ext = ".MOV" THEN ".mov" ELSE ext

\* _attach_video: ext = ext.lower() if ext else ".mp4"
VideoExt(filenameExt) == IF filenameExt = "" THEN ".mp4" ELSE Lower(filenameExt)

ImageScanExts == {".jpg", ".jpeg", ".png"}
VideoScanExts == {".mp4", ".mov", ".avi", ".mkv", ".webm"}

-----------------------------------------------------------------------------
(* References and files *)

Kinds == {"image", "video"}

SectionOf(kind) == IF kind = "image" THEN "images" ELSE "videos"
DirOf(kind)     == IF kind = "image" THEN "base_images" ELSE "base_videos"

NoRef == [dir |-> "none", id |-> 0, ext |-> ""]

\* f"base_images/{fn}" / f"base_videos/{fn}" with fn = MEDIA_xxx__<id><ext>
BaseRef(kind, name) == [dir |-> DirOf(kind), id |-> name.id, ext |-> name.ext]

NameOf(ref) == [id |-> ref.id, ext |-> ref.ext]

FilesOf(kind) == IF kind = "image" THEN baseImages ELSE baseVideos

\* resolve_media_path(ref, {}) for a base reference: the path when the
\* file exists under the media root, None otherwise.
RefExists(ref) ==
    \/ ref.dir = "base_images" /\ NameOf(ref) \in DOMAIN baseImages
    \/ ref.dir = "base_videos" /\ NameOf(ref) \in DOMAIN baseVideos

BaseRefsOnDisk ==
    { BaseRef("image", n) : n \in DOMAIN baseImages }
    \cup { BaseRef("video", n) : n \in DOMAIN baseVideos }

\* generate_base_media_filename / generate_base_video_filename: the n-th
\* uuid4 drawn, with the extension.
generate_base_media_filename(n, ext) == [id |-> n, ext |-> ext]

-----------------------------------------------------------------------------
(* Registry *)

EmptyRegistry == [images |-> <<>>, videos |-> <<>>]

\* _load_media_registry: the document, or the empty registry when the
\* file is missing.
_load_media_registry == IF regExists THEN registry ELSE EmptyRegistry

\* Hash a scan computes for a file on disk; files the scan skips (wrong
\* extension, not decodable) have none.
Scannable(kind, name) ==
    IF kind = "image"
    THEN name.ext \in ImageScanExts /\ Decodable(baseImages[name])
    ELSE name.ext \in VideoScanExts

ScanHash(kind, name) ==
    IF kind = "image"
    THEN _compute_pil_hash(decode_upload_to_pil(baseImages[name]))
    ELSE _compute_file_hash(baseVideos[name])

ScannedNames(kind) == { n \in DOMAIN FilesOf(kind) : Scannable(kind, n) }

\* _scan_base_images_and_register / _scan_base_videos_and_register: every
\* hash found on disk and not yet a key is registered to one of the files
\* that carry it (os.listdir order decides which).
ScanAndRegister(reg, kind) ==
    LET sec   == reg[SectionOf(kind)]
        fresh == { ScanHash(kind, n) : n \in ScannedNames(kind) } \ DOMAIN sec
        picks == { f \in [fresh -> ScannedNames(kind)] :
                     \A h \in fresh : ScanHash(kind, f[h]) = h }
    IN  { [reg EXCEPT ![SectionOf(kind)] =
              [h \in DOMAIN sec \cup fresh |->
                  IF h \in DOMAIN sec THEN sec[h] ELSE BaseRef(kind, p[h])]]
          : p \in picks }

\* Variant: the base directory is rescanned and the registry saved on
\* every call.
EnsureAlwaysRescans(kind) ==
    { [reg |-> r, saved |-> TRUE]
      : r \in ScanAndRegister(IF regExists THEN registry ELSE EmptyRegistry, kind) }

\* _ensure_registry_is_populated: outcomes [reg, saved].
_ensure_registry_is_populated(kind) ==
    LET reg == _load_media_registry
    IN  IF ~regExists \/ DOMAIN reg[SectionOf(kind)] = {}
        THEN { [reg |-> r, saved |-> TRUE] : r \in ScanAndRegister(reg, kind) }
        ELSE { [reg |-> reg, saved |-> FALSE] }

\* Variant: the lookup never finds the hash.
LookupNeverFinds(reg, kind, h) == NoRef

Lookup(reg, kind, h) ==
    IF h \in DOMAIN reg[SectionOf(kind)] THEN reg[SectionOf(kind)][h] ELSE NoRef

\* _find_existing_by_hash_or_scan: outcomes [ref, reg, saved, path]. The
\* registered reference is returned when its file exists; otherwise the
\* directory is scanned, the registry saved and the lookup repeated.
_find_existing_by_hash_or_scan(kind, h) ==
    UNION { IF Lookup(e.reg, kind, h) # NoRef /\ RefExists(Lookup(e.reg, kind, h))
            THEN { [ref |-> Lookup(e.reg, kind, h), reg |-> e.reg, saved |-> e.saved,
                    path |-> IF e.saved THEN "ensure_scan" ELSE "fast"] }
            ELSE { [ref |-> Lookup(r, kind, h), reg |-> r,
                    saved |-> TRUE, path |-> "scan"]
                   : r \in ScanAndRegister(e.reg, kind) }
          : e \in _ensure_registry_is_populated(kind) }

\* _register_media: load, set one key, save.
_register_media(reg, kind, h, ref) ==
    [reg EXCEPT ![SectionOf(kind)] =
        [k \in DOMAIN reg[SectionOf(kind)] \cup {h} |->
            IF k = h THEN ref ELSE reg[SectionOf(kind)][k]]]

-----------------------------------------------------------------------------
(* Uploads handed to attach_media *)

Uploads ==
    { [kind |-> "image", bytes |-> b, ext |-> ".png"] : b \in ImageUploads }
    \cup [kind : {"video"}, bytes : VideoBytes, ext : UploadExts]

NoUpload == [kind |-> "none", bytes |-> Truncated, ext |-> ""]

\* Outcomes of writing the new base file: written, failed leaving no
\* file, failed leaving a truncated file.
WriteOutcomes == {"ok", "fail", "partial"}

\* The hash attach computes for an upload (steps 1 and 2 of the pipeline).
ContentHash(up) ==
    IF up.kind = "image"
    THEN _compute_pil_hash(decode_upload_to_pil(up.bytes))
    ELSE _compute_file_hash(up.bytes)

\* The bytes attach writes for an upload, and the name's extension.
StoredBytes(up) ==
    IF up.kind = "image" THEN pil_to_jpg(decode_upload_to_pil(up.bytes))
                         ELSE up.bytes

StoredExt(up) == IF up.kind = "image" THEN ".jpg" ELSE VideoExt(up.ext)

PartialBytes(up) == IF up.kind = "image" THEN Truncated ELSE EmptyStream

\* History record of an operation: its name, the upload and the reference
\* it was about or returned, the branch it took, and for attach three facts
\* about the state it started from: "known", the reference the same upload
\* was answered with right before the registry was lost; "stale", the
\* registered reference of the upload's hash when its file was missing;
\* "healed", whether the registry was missing or empty while the base
\* directory of the kind held files.
Op(op, up, ret, path) ==
    [op |-> op, up |-> up, ret |-> ret, path |-> path,
     known |-> NoRef, stale |-> NoRef, healed |-> FALSE]

Succeeded(op) == op.op = "attach" /\ op.path \in {"fast", "ensure_scan", "scan", "new"}

RegistryLost == ~regExists \/ registry = EmptyRegistry

AttachOp(up, ret, path) ==
    LET reg0 == Lookup(_load_media_registry, up.kind, ContentHash(up))
    IN  [op |-> "attach", up |-> up, ret |-> ret, path |-> path,
         known  |-> IF lastOp.op \in {"registry_deleted", "registry_emptied"}
                       /\ lastOp.up = up
                    THEN lastOp.ret ELSE NoRef,
         stale  |-> IF reg0 # NoRef /\ ~RefExists(reg0) THEN reg0 ELSE NoRef,
         healed |-> RegistryLost /\ DOMAIN FilesOf(up.kind) # {}]

\* The registry is lost right after a successful attach: remember what
\* that attach was given and what it returned.
LossOp(op) ==
    IF Succeeded(lastOp) THEN Op(op, lastOp.up, lastOp.ret, "")
                         ELSE Op(op, NoUpload, NoRef, "")

Extend(f, k, v) == [x \in DOMAIN f \cup {k} |-> IF x = k THEN v ELSE f[x]]

Remove(f, k) == [x \in DOMAIN f \ {k} |-> f[x]]

\* The files of the two base directories after one file is written.
WriteBase(kind, name, bytes) ==
    [baseImages |-> IF kind = "image" THEN Extend(baseImages, name, bytes)
                                      ELSE baseImages,
     baseVideos |-> IF kind = "video" THEN Extend(baseVideos, name, bytes)
                                      ELSE baseVideos]

\* Outcome of one attach_media call: the reference returned, the branch
\* taken and the store the call leaves behind.
Outcome(ret, path, files, rx, reg, ctr) ==
    [ret |-> ret, path |-> path,
     baseImages |-> files.baseImages, baseVideos |-> files.baseVideos,
     regExists |-> rx, registry |-> reg, uuidCtr |-> ctr]

FilesNow == [baseImages |-> baseImages, baseVideos |-> baseVideos]

\* Variant: the registry is looked up (and saved) before the upload is
\* decoded.
AttachDecodeErrorAfterLookup(up) ==
    Outcome(NoRef, "decode_error", FilesNow, TRUE, _load_media_registry, uuidCtr)

\* attach_media(uploaded_bytes=..., media_type=kind) -> _attach_image /
\* _attach_video: the upload does not decode.
AttachDecodeError(up) ==
    Outcome(NoRef, "decode_error", FilesNow, regExists, registry, uuidCtr)

\* Variant: the reference found is returned without looking at the disk.
ExistingUnchecked(f) == f.ref # NoRef

\* _attach_image / _attach_video: "if existing_ref: ... if abs_path and
\* os.path.exists(abs_path): return existing_ref".
ExistingUsable(f) == f.ref # NoRef /\ RefExists(f.ref)

AttachExisting(up, f) ==
    Outcome(f.ref, f.path, FilesNow, regExists \/ f.saved,
            IF f.saved THEN f.reg ELSE registry, uuidCtr)

\* Variant: the new reference is registered before the file is written.
AttachNewRegistersFirst(up, f, wr) ==
    LET name == generate_base_media_filename(uuidCtr + 1, StoredExt(up))
        ref  == BaseRef(up.kind, name)
        reg  == _register_media(f.reg, up.kind, ContentHash(up), ref)
    IN  CASE wr = "ok" ->
               Outcome(ref, "new", WriteBase(up.kind, name, StoredBytes(up)),
                       TRUE, reg, uuidCtr + 1)
          [] wr = "partial" ->
               Outcome(ref, "write_error",
                       WriteBase(up.kind, name, PartialBytes(up)),
                       TRUE, reg, uuidCtr + 1)
          [] OTHER ->
               Outcome(ref, "write_error", FilesNow, TRUE, reg, uuidCtr + 1)

\* _attach_image / _attach_video from "New file - save it" on: write the
\* file, then register it.
AttachNew(up, f, wr) ==
    LET name == generate_base_media_filename(uuidCtr + 1, StoredExt(up))
        ref  == BaseRef(up.kind, name)
    IN  CASE wr = "ok" ->
               Outcome(ref, "new", WriteBase(up.kind, name, StoredBytes(up)),
                       TRUE,
                       _register_media(f.reg, up.kind, ContentHash(up), ref),
                       uuidCtr + 1)
          [] wr = "partial" ->
               Outcome(ref, "write_error",
                       WriteBase(up.kind, name, PartialBytes(up)),
                       TRUE, f.reg, uuidCtr + 1)
          [] OTHER ->
               Outcome(ref, "write_error", FilesNow, TRUE, f.reg, uuidCtr + 1)

\* The outcomes of attach_media(up) when the write of a new file ends as
\* wr says. A call that needs a new name has none once MaxUuid names are
\* drawn.
AttachOutcomes(up, wr) ==
    IF up.kind = "image" /\ ~Decodable(up.bytes)
    THEN { AttachDecodeError(up) }
    ELSE UNION { IF ExistingUsable(f)
                 THEN (IF wr = "ok" THEN { AttachExisting(up, f) } ELSE {})
                 ELSE (IF uuidCtr < MaxUuid THEN { AttachNew(up, f, wr) } ELSE {})
               : f \in _find_existing_by_hash_or_scan(up.kind, ContentHash(up)) }

\* The store after an attach_media call (ensure_media_dirs included).
ApplyOutcome(o) ==
    /\ dirs' = TRUE
    /\ baseImages' = o.baseImages
    /\ baseVideos' = o.baseVideos
    /\ regExists' = o.regExists
    /\ registry' = o.registry
    /\ uuidCtr' = o.uuidCtr

attach_media(up, wr) ==
    \E o \in AttachOutcomes(up, wr) :
        /\ ApplyOutcome(o)
        /\ lastOp' = AttachOp(up, o.ret, o.path)
        /\ UNCHANGED indexVars

\* delete_global_media(ref) for a base reference.
delete_global_media(ref) ==
    /\ RefExists(ref)
    /\ baseImages' = IF ref.dir = "base_images" THEN Remove(baseImages, NameOf(ref))
                                                ELSE baseImages
    /\ baseVideos' = IF ref.dir = "base_videos" THEN Remove(baseVideos, NameOf(ref))
                                                ELSE baseVideos
    /\ lastOp' = Op("delete", NoUpload, ref, "removed")
    /\ UNCHANGED <<dirs, regExists, registry, uuidCtr, indexVars, histVars, sideVars>>

\* media_registry.json is deleted (the case _load_media_registry and
\* _ensure_registry_is_populated handle with os.path.exists).
RegistryDeleted ==
    /\ regExists
    /\ regExists' = FALSE
    /\ registry' = EmptyRegistry
    /\ lastOp' = LossOp("registry_deleted")
    /\ UNCHANGED <<dirs, baseImages, baseVideos, uuidCtr, indexVars, histVars, sideVars>>

\* media_registry.json is emptied: it exists and loads as the empty
\* registry (json.load fails, or both sections are empty).
RegistryEmptied ==
    /\ regExists /\ registry # EmptyRegistry
    /\ registry' = EmptyRegistry
    /\ lastOp' = LossOp("registry_emptied")
    /\ UNCHANGED <<dirs, baseImages, baseVideos, regExists, uuidCtr,
                   indexVars, histVars, sideVars>>

\* rebuild_media_registry: both sections rebuilt from an empty registry.
rebuild_media_registry ==
    /\ dirs' = TRUE
    /\ regExists' = TRUE
    /\ \E r1 \in ScanAndRegister(EmptyRegistry, "image") :
          registry' \in ScanAndRegister(r1, "video")
    /\ lastOp' = [Op("rebuild", NoUpload, NoRef, "") EXCEPT
                      !.healed = RegistryLost /\ BaseRefsOnDisk # {}]
    /\ UNCHANGED <<baseImages, baseVideos, uuidCtr, indexVars, histVars, sideVars>>

-----------------------------------------------------------------------------
(* Reference strings and their classification *)

MaxSegs == 2     \* path segments of a reference string

\* A reference string is read as segments joined by separators. A segment
\* is a word and whether it is spelled exactly as the program's literal
\* (exact = FALSE: it differs from the literal in letter case only). The
\* prefix words stand for a file name that starts with the prefix.
DirWords    == {"base_images", "base_videos", "overlays"}
PrefixWords == {"MEDIA_IMG__", "MEDIA_VID__", "CANVAS__"}
Words       == DirWords \cup PrefixWords \cup {"other"}
Separators  == {"/", "\\"}

Seg(w) == [w |-> w, exact |-> TRUE]

Segments == [w : Words, exact : BOOLEAN]

\* lead is the separator the string starts with ("" for none); seps[k]
\* separates segs[k] and segs[k + 1].
Text(lead, segs, seps) == [lead |-> lead, segs |-> segs, seps |-> seps]

EmptyText == Text("", <<>>, <<>>)

TextsOfLen(n) ==
    { Text(l, sg, sp) : l \in {""} \cup Separators,
                        sg \in [1..n -> Segments],
                        sp \in [1..(n - 1) -> Separators] }

RefTexts == {EmptyText} \cup UNION { TextsOfLen(n) : n \in 1..MaxSegs }

\* ref.startswith(prefix) for a file name prefix
StartsWithPrefix(t, p) ==
    t.lead = "" /\ Len(t.segs) >= 1 /\ t.segs[1] = Seg(p)

\* ref.startswith(dir + sep)
StartsWithDir(t, d, sep) ==
    t.lead = "" /\ Len(t.segs) >= 2 /\ t.segs[1] = Seg(d) /\ t.seps[1] = sep

\* (sep + dir + sep) in ref
ContainsDir(t, d, sep) ==
    \E k \in 1..(Len(t.segs) - 1) :
        /\ t.segs[k] = Seg(d)
        /\ t.seps[k] = sep
        /\ IF k = 1 THEN t.lead = sep ELSE t.seps[k - 1] = sep

IsKindRef(t, prefix, d) ==
    /\ t # EmptyText
    /\ \/ StartsWithPrefix(t, prefix)
       \/ StartsWithDir(t, d, "/") \/ StartsWithDir(t, d, "\\")
       \/ ContainsDir(t, d, "/") \/ ContainsDir(t, d, "\\")

is_base_image_ref(t) == IsKindRef(t, "MEDIA_IMG__", "base_images")

is_base_video_ref(t) == IsKindRef(t, "MEDIA_VID__", "base_videos")

\* Variant: every non-empty reference counts as an overlay.
OverlayRefUnchecked(t) == t # EmptyText

is_overlay_ref(t) == IsKindRef(t, "CANVAS__", "overlays")

\* The string of a reference the program stored: f"base_images/{fn}",
\* f"base_videos/{fn}", f"overlays/{filename}"; None reads as "".
RefText(ref) ==
    IF "dir" \in DOMAIN ref
    THEN IF ref.dir = "base_images"
         THEN Text("", <<Seg("base_images"), Seg("MEDIA_IMG__")>>, <<"/">>)
         ELSE IF ref.dir = "base_videos"
         THEN Text("", <<Seg("base_videos"), Seg("MEDIA_VID__")>>, <<"/">>)
         ELSE EmptyText
    ELSE IF ref.typ = "" THEN EmptyText
         ELSE Text("", <<Seg("overlays"), Seg("CANVAS__")>>, <<"/">>)

\* delete_global_media(ref): the files of the media root once the file the
\* reference resolves to is removed.
FilesAfterDelete(ref) ==
    [baseImages |-> IF "dir" \in DOMAIN ref /\ ref.dir = "base_images"
                       /\ NameOf(ref) \in DOMAIN baseImages
                    THEN Remove(baseImages, NameOf(ref)) ELSE baseImages,
     baseVideos |-> IF "dir" \in DOMAIN ref /\ ref.dir = "base_videos"
                       /\ NameOf(ref) \in DOMAIN baseVideos
                    THEN Remove(baseVideos, NameOf(ref)) ELSE baseVideos,
     overlays   |-> IF ref \in DOMAIN overlays THEN Remove(overlays, ref)
                                               ELSE overlays]

\* The clearing path of the handlers, for whatever reference the position
\* holds: "if ref and is_overlay_ref(ref): delete_global_media(ref)".
ClearReference(ref) ==
    LET after == IF is_overlay_ref(RefText(ref)) THEN FilesAfterDelete(ref)
                 ELSE [baseImages |-> baseImages, baseVideos |-> baseVideos,
                       overlays |-> overlays]
    IN  /\ baseImages' = after.baseImages
        /\ baseVideos' = after.baseVideos
        /\ overlays' = after.overlays
        /\ lastOp' = [op |-> "clear_reference", ref |-> ref]
        /\ UNCHANGED <<dirs, regExists, registry, uuidCtr, images, counter, errors>>

-----------------------------------------------------------------------------
(* Canvas overlays and the record index *)

\* Audits of the project and the bitmaps the canvas hands to a save.
AuditIds == {"A1"}
Bitmaps  == {"ink1"}

\* f"{n:03d}", the digits of a record number (n < 1000).
NrStr(n) == <<n \div 100, (n \div 10) % 10, n % 10>>

\* Order of the strings f"{n:03d}" as str compares them.
StrLess(a, b) ==
    \E k \in 1..3 : a[k] < b[k] /\ \A j \in 1..(k - 1) : a[j] = b[j]

\* The nr argument of an overlay name: a record number, or the temporary
\* number f"_TMP_{i:03d}" of reindex pass 1.
RecordNr(digits) == [pre |-> "", d |-> digits]
TempNr(i)        == [pre |-> "_TMP_", d |-> NrStr(i)]

\* sanitize_filename on an nr argument: strip("_") removes the leading
\* underscore of a temporary number.
sanitize_filename(nr) == IF nr.pre = "_TMP_" THEN [nr EXCEPT !.pre = "TMP_"] ELSE nr

\* "index is None"
NoIdx == -1

\* No overlay linked (None).
NoOvl == [aud |-> "", nr |-> RecordNr(NrStr(0)), typ |-> "", idx |-> NoIdx, sfx |-> 0]

\* generate_canvas_overlay_filename (one project):
\* CANVAS__PRJ_p__AUD_a__NR_n__TYPE_t[_index].png; sfx is the collision
\* suffix _1, _2, ... reindex may add before ".png" (0: none).
generate_canvas_overlay_filename(audit, nr, typ, index) ==
    [aud |-> audit, nr |-> sanitize_filename(nr), typ |-> typ,
     idx |-> index, sfx |-> 0]

\* "if ref and is_overlay_ref(ref): delete_global_media(ref)" for the
\* overlay linked at a position: the overlay files left.
DeleteOverlay(files, ref) ==
    IF ref # NoOvl /\ is_overlay_ref(RefText(ref)) /\ ref \in DOMAIN files
    THEN Remove(files, ref) ELSE files

\* save_canvas_overlay: the overlay files after the PNG is written.
save_canvas_overlay(files, name, bmp) == Extend(files, name, bmp)

\* add_image_record, with rec["audit_id"] set by the caller.
add_image_record(audit, number, base_ref) ==
    [audit |-> audit, nr |-> number, base |-> base_ref, overlay |-> NoOvl,
     ctx |-> <<>>, add |-> <<>>, videos |-> <<>>]

\* An entry of ctx_list / add_fehler_list.
ListEntry(base_ref) == [base |-> base_ref, overlay |-> NoOvl]

\* History record of an index operation: the record, the role and slot it
\* acted on, and the overlay linked there before and after.
IndexOp(op, ri, role, slot, old, new) ==
    [op |-> op, ri |-> ri, role |-> role, slot |-> slot, old |-> old, new |-> new]

\* History record of the other index operations.
IndexStep(op) == IndexOp(op, 0, "", NoIdx, NoOvl, NoOvl)

SeqRemove(q, k) == [j \in 1..(Len(q) - 1) |-> IF j < k THEN q[j] ELSE q[j + 1]]

\* del entries of a list: the overlay files they link.
RECURSIVE DeleteListOverlays(_, _, _)
DeleteListOverlays(files, items, i) ==
    IF i > Len(items) THEN files
    ELSE DeleteListOverlays(DeleteOverlay(files, items[i].overlay), items, i + 1)

\* Uploads of the photo, context and additional image widgets, and of
\* the video widget.
PhotoUploads ==
    { [kind |-> "image", ext |-> ".png",
       bytes |-> EncodeLossless([pix |-> 0, w |-> MAX_IMAGE_WIDTH])] }

ClipUploads == { up \in Uploads : up.kind = "video" /\ up.bytes # EmptyStream
                                      /\ up.ext = ".mp4" }

\* app.py upload flow for one image: decode, _increment_image_counter,
\* attach_media, add_image_record, save_index_v2.
NewRecord(audit, up) ==
    /\ Len(images) < MaxRecords
    /\ counter < MaxCounter
    /\ \E o \in AttachOutcomes(up, "ok") :
          /\ o.ret # NoRef
          /\ ApplyOutcome(o)
          /\ counter' = counter + 1
          /\ images' = Append(images,
                              add_image_record(audit, NrStr(counter + 1), o.ret))
          /\ lastOp' = IndexStep("new_record")
    /\ UNCHANGED <<overlays, errors>>

\* app.py "Video speichern" with a target record: attach_media, then the
\* reference is appended to the videos of the first record of the audit
\* with that number, unless it is there already; save_index_v2.
save_camera_video(i, up) ==
    /\ \A j \in 1..(i - 1) : ~(images[j].audit = images[i].audit
                                  /\ images[j].nr = images[i].nr)
    /\ \E o \in AttachOutcomes(up, "ok") :
          /\ o.ret # NoRef
          /\ ApplyOutcome(o)
          /\ images' = [images EXCEPT ![i].videos =
                            IF \E k \in DOMAIN @ : @[k] = o.ret
                            THEN @ ELSE Append(@, o.ret)]
          /\ lastOp' = IndexStep("save_video")
    /\ UNCHANGED <<overlays, counter, errors>>

\* editor on_save_main -> save_annotated_as_edited ->
\* save_overlay_for_record(OVERLAY_FEHLERBILD), save_index_v2.
on_save_main(i, bmp) ==
    LET rec  == images[i]
        name == generate_canvas_overlay_filename(rec.audit, RecordNr(rec.nr),
                                                 OVERLAY_FEHLERBILD, NoIdx)
    IN  /\ RefExists(rec.base)
        /\ overlays' = save_canvas_overlay(overlays, name, bmp)
        /\ images' = [images EXCEPT ![i].overlay = name]
        /\ lastOp' = IndexOp("save_overlay", i, "main", NoIdx, rec.overlay, name)
        /\ UNCHANGED <<storeVars, counter, errors>>

\* Variant: clearing the marking removes the base image as well.
ClearMainDeletesBase(i) ==
    LET rec == images[i]
    IN  /\ RefExists(rec.base)
        /\ overlays' = DeleteOverlay(overlays, rec.overlay)
        /\ baseImages' = Remove(baseImages, NameOf(rec.base))
        /\ images' = [images EXCEPT ![i].overlay = NoOvl]
        /\ lastOp' = IndexStep("clear_overlay")
        /\ UNCHANGED <<dirs, baseVideos, regExists, registry, uuidCtr,
                       counter, errors>>

\* editor on_clear_main
on_clear_main(i) ==
    LET rec == images[i]
    IN  /\ RefExists(rec.base)
        /\ overlays' = DeleteOverlay(overlays, rec.overlay)
        /\ images' = [images EXCEPT ![i].overlay = NoOvl]
        /\ lastOp' = IndexStep("clear_overlay")
        /\ UNCHANGED <<storeVars, counter, errors>>

\* attach_context_images(files, rec): the overlays of the old entries are
\* deleted, the list is replaced by one entry for files[0].
attach_context_images(i, up) ==
    LET rec == images[i]
    IN  /\ \E o \in AttachOutcomes(up, "ok") :
              /\ ApplyOutcome(o)
              /\ images' = [images EXCEPT ![i].ctx =
                               IF o.ret # NoRef THEN <<ListEntry(o.ret)>> ELSE <<>>]
        /\ overlays' = DeleteListOverlays(overlays, rec.ctx, 1)
        /\ lastOp' = IndexStep("attach_context")
        /\ UNCHANGED <<counter, errors>>

\* editor on_save_ctx: delete the linked overlay, save with index=0.
on_save_ctx(i, bmp) ==
    LET rec  == images[i]
        name == generate_canvas_overlay_filename(rec.audit, RecordNr(rec.nr),
                                                 OVERLAY_KONTEXT, 0)
    IN  /\ rec.ctx # <<>> /\ RefExists(rec.ctx[1].base)
        /\ overlays' = save_canvas_overlay(
                           DeleteOverlay(overlays, rec.ctx[1].overlay), name, bmp)
        /\ images' = [images EXCEPT ![i].ctx[1].overlay = name]
        /\ lastOp' = IndexOp("save_overlay", i, "ctx", 0, rec.ctx[1].overlay, name)
        /\ UNCHANGED <<storeVars, counter, errors>>

\* editor on_clear_ctx
on_clear_ctx(i) ==
    LET rec == images[i]
    IN  /\ rec.ctx # <<>> /\ RefExists(rec.ctx[1].base)
        /\ overlays' = DeleteOverlay(overlays, rec.ctx[1].overlay)
        /\ images' = [images EXCEPT ![i].ctx[1].overlay = NoOvl]
        /\ lastOp' = IndexStep("clear_overlay")
        /\ UNCHANGED <<storeVars, counter, errors>>

\* detach_context_image(rec, 0)
detach_context_image(i) ==
    LET rec == images[i]
    IN  /\ rec.ctx # <<>> /\ RefExists(rec.ctx[1].base)
        /\ overlays' = DeleteOverlay(overlays, rec.ctx[1].overlay)
        /\ images' = [images EXCEPT ![i].ctx = SeqRemove(rec.ctx, 1)]
        /\ lastOp' = IndexStep("detach_context")
        /\ UNCHANGED <<storeVars, counter, errors>>

\* attach_additional_images(files, rec, phase="FEHLER") with one file; cap
\* is the list length the model lets the call reach.
attach_additional_images(i, up, cap) ==
    LET rec == images[i]
    IN  /\ Len(rec.add) < cap
        /\ \E o \in AttachOutcomes(up, "ok") :
              /\ ApplyOutcome(o)
              /\ images' = [images EXCEPT ![i].add =
                               IF o.ret # NoRef THEN Append(rec.add, ListEntry(o.ret))
                                                ELSE rec.add]
        /\ lastOp' = IndexStep("attach_additional")
        /\ UNCHANGED <<overlays, counter, errors>>

\* editor on_save_add_pre for the selected entry (idx_sel counts from 0):
\* delete the linked overlay, save with index=idx_sel.
on_save_add_pre(i, sel, bmp) ==
    LET rec  == images[i]
        name == generate_canvas_overlay_filename(rec.audit, RecordNr(rec.nr),
                                                 OVERLAY_ZUSATZ_FEHLER, sel)
        old  == rec.add[sel + 1].overlay
    IN  /\ sel + 1 \in DOMAIN rec.add /\ RefExists(rec.add[sel + 1].base)
        /\ overlays' = save_canvas_overlay(DeleteOverlay(overlays, old), name, bmp)
        /\ images' = [images EXCEPT ![i].add[sel + 1].overlay = name]
        /\ lastOp' = IndexOp("save_overlay", i, "add", sel, old, name)
        /\ UNCHANGED <<storeVars, counter, errors>>

\* editor on_clear_add_pre
on_clear_add_pre(i, sel) ==
    LET rec == images[i]
        old == rec.add[sel + 1].overlay
    IN  /\ sel + 1 \in DOMAIN rec.add /\ RefExists(rec.add[sel + 1].base)
        /\ overlays' = DeleteOverlay(overlays, old)
        /\ images' = [images EXCEPT ![i].add[sel + 1].overlay = NoOvl]
        /\ lastOp' = IndexStep("clear_overlay")
        /\ UNCHANGED <<storeVars, counter, errors>>

\* detach_additional_image(rec, idx_sel, phase="FEHLER")
detach_additional_image(i, sel) ==
    LET rec == images[i]
        old == rec.add[sel + 1].overlay
    IN  /\ sel + 1 \in DOMAIN rec.add /\ RefExists(rec.add[sel + 1].base)
        /\ overlays' = DeleteOverlay(overlays, old)
        /\ images' = [images EXCEPT ![i].add = SeqRemove(rec.add, sel + 1)]
        /\ lastOp' = IndexStep("detach_additional")
        /\ UNCHANGED <<storeVars, counter, errors>>

\* editor "Fehlerbild löschen": idx["images"].remove(rec), save_index_v2.
\* No file is touched.
DeleteRecord(i) ==
    /\ images' = SeqRemove(images, i)
    /\ lastOp' = IndexStep("delete_record")
    /\ UNCHANGED <<storeVars, overlays, counter, errors>>

\* Variant: the copy keeps the overlay references of its source.
CloneKeepsOverlays(source_rec, target_audit, new_nr) ==
    [source_rec EXCEPT !.nr = new_nr, !.audit = target_audit]

\* The record clone_image_to_audit appends: a deep copy with the new
\* number and audit, the overlay reference of the record and of every
\* list entry reset to None.
ClonedRecord(source_rec, target_audit, new_nr) ==
    [source_rec EXCEPT
        !.nr = new_nr, !.audit = target_audit, !.overlay = NoOvl,
        !.ctx = [k \in DOMAIN @ |-> [@[k] EXCEPT !.overlay = NoOvl]],
        !.add = [k \in DOMAIN @ |-> [@[k] EXCEPT !.overlay = NoOvl]]]

\* Variant: the clone takes the next number and leaves the counter as it
\* was.
CloneCounterUnsaved(i, target_audit) ==
    /\ Len(images) < MaxRecords
    /\ counter < MaxCounter
    /\ images[i].audit # target_audit
    /\ images' = Append(images,
                        ClonedRecord(images[i], target_audit, NrStr(counter + 1)))
    /\ lastOp' = IndexOp("clone", i, "", NoIdx, NoOvl, NoOvl)
    /\ UNCHANGED <<storeVars, overlays, counter, errors>>

\* editor "Fehlerbilder aus anderem Audit übernehmen" for one selected
\* record: clone_image_to_audit, save_index_v2.
clone_image_to_audit(i, target_audit) ==
    /\ Len(images) < MaxRecords
    /\ counter < MaxCounter + MaxClones
    /\ images[i].audit # target_audit
    /\ counter' = counter + 1
    /\ images' = Append(images,
                        ClonedRecord(images[i], target_audit, NrStr(counter + 1)))
    /\ lastOp' = IndexOp("clone", i, "", NoIdx, NoOvl, NoOvl)
    /\ UNCHANGED <<storeVars, overlays, errors>>

\* reindex_audit_images without the audit filter on index["images"].
SortedAllAudits(audit) ==
    LET idxs == DOMAIN images
        Before(j, i) == \/ StrLess(images[j].nr, images[i].nr)
                        \/ images[j].nr = images[i].nr /\ j < i
    IN  [k \in 1..Cardinality(idxs) |->
            CHOOSE i \in idxs : Cardinality({ j \in idxs : Before(j, i) }) = k - 1]

\* reindex_audit_images: audit_images.sort(key=nr) is stable; the result
\* lists the positions in index["images"] in the sorted order.
SortedByNr(audit) ==
    LET idxs == { i \in DOMAIN images : images[i].audit = audit }
        Before(j, i) == \/ StrLess(images[j].nr, images[i].nr)
                        \/ images[j].nr = images[i].nr /\ j < i
    IN  [k \in 1..Cardinality(idxs) |->
            CHOOSE i \in idxs : Cardinality({ j \in idxs : Before(j, i) }) = k - 1]

\* The target name taken as computed, with no look at the directory.
TargetNameUnchecked(files, name) == name

\* "while os.path.exists(new_abs): new_abs = f"{base}_{counter}{ext}""
FreeName(files, name) ==
    IF name \notin DOMAIN files THEN name
    ELSE LET cand(k) == [name EXCEPT !.sfx = k]
             k == CHOOSE c \in 1..(Cardinality(DOMAIN files) + 1) :
                     /\ cand(c) \notin DOMAIN files
                     /\ \A j \in 1..(c - 1) : cand(j) \in DOMAIN files
         IN  cand(k)

\* rename_overlay of reindex_audit_images. st = [files, errs, moves] is the
\* overlay directory, the error list and the number of shutil.move calls
\* so far; fails is the set of move calls that raise; an entry of the error
\* list names the file and the number of the call that raised. Result
\* [st, ref].
rename_overlay(st, old_ref, audit, new_nr, typ, index, fails) ==
    IF old_ref = NoOvl THEN [st |-> st, ref |-> NoOvl]
    ELSE IF old_ref \notin DOMAIN st.files THEN [st |-> st, ref |-> old_ref]
    ELSE LET new0 == generate_canvas_overlay_filename(audit, new_nr, typ, index)
             new  == FreeName(st.files, new0)
             n    == st.moves + 1
         IN  IF old_ref = new0 THEN [st |-> st, ref |-> new0]
             ELSE IF n \in fails
             THEN [st |-> [st EXCEPT !.moves = n,
                                     !.errs = Append(@, [ref |-> old_ref, nr |-> new_nr])],
                   ref |-> old_ref]
             ELSE [st |-> [st EXCEPT !.moves = n,
                                     !.files = Extend(Remove(@, old_ref), new,
                                                      st.files[old_ref])],
                   ref |-> new]

\* rename_overlays_in_list: entries count from 1.
RECURSIVE rename_overlays_in_list(_, _, _, _, _, _, _)
rename_overlays_in_list(st, items, i, audit, new_nr, typ, fails) ==
    IF i > Len(items) THEN [st |-> st, items |-> items]
    ELSE LET r == rename_overlay(st, items[i].overlay, audit, new_nr, typ, i, fails)
         IN  rename_overlays_in_list(r.st, [items EXCEPT ![i].overlay = r.ref],
                                     i + 1, audit, new_nr, typ, fails)

\* The body of one loop iteration of a pass, for one record.
RenameRecord(st, rec, audit, new_nr, fails) ==
    LET m == rename_overlay(st, rec.overlay, audit, new_nr,
                            OVERLAY_FEHLERBILD, NoIdx, fails)
        c == rename_overlays_in_list(m.st, rec.ctx, 1, audit, new_nr,
                                     OVERLAY_KONTEXT, fails)
        a == rename_overlays_in_list(c.st, rec.add, 1, audit, new_nr,
                                     OVERLAY_ZUSATZ_FEHLER, fails)
    IN  [st  |-> a.st,
         rec |-> [rec EXCEPT !.overlay = m.ref, !.ctx = c.items, !.add = a.items]]

\* Pass 1 (temporary numbers _TMP_000, ...) and pass 2 (final numbers 001,
\* ..., and rec["nr"]) over the sorted records, from the j-th on.
RECURSIVE RenamePass(_, _, _, _, _, _, _)
RenamePass(st, recs, order, j, pass, audit, fails) ==
    IF j > Len(order) THEN [st |-> st, recs |-> recs]
    ELSE LET new_nr == IF pass = 1 THEN TempNr(j - 1) ELSE RecordNr(NrStr(j))
             r      == RenameRecord(st, recs[order[j]], audit, new_nr, fails)
             rec2   == IF pass = 2 THEN [r.rec EXCEPT !.nr = NrStr(j)] ELSE r.rec
         IN  RenamePass(r.st, [recs EXCEPT ![order[j]] = rec2], order, j + 1,
                        pass, audit, fails)

\* History record of a reindex: the audit, the move calls that raised and
\* the number of move calls made.
ReindexOp(audit, fails, moves) ==
    [op |-> "reindex", audit |-> audit, fails |-> fails, moves |-> moves]

\* "Neu nummerieren": load_index_v2, reindex_audit_images, save_index_v2.
reindex_audit_images(audit, fails) ==
    LET order == SortedByNr(audit)
        st0   == [files |-> overlays, errs |-> <<>>, moves |-> 0]
        p1    == RenamePass(st0, images, order, 1, 1, audit, fails)
        p2    == RenamePass(p1.st, p1.recs, order, 1, 2, audit, fails)
    IN  /\ \E i \in DOMAIN images : images[i].audit = audit
        /\ \A n \in fails : n <= p2.st.moves
        /\ overlays' = p2.st.files
        /\ images' = p2.recs
        /\ errors' = p2.st.errs
        /\ lastOp' = ReindexOp(audit, fails, p2.st.moves)
        /\ UNCHANGED <<storeVars, counter>>

\* The kinds a reference string is recognised as.
Classes(t) ==
    [base_image |-> is_base_image_ref(t), base_video |-> is_base_video_ref(t),
     overlay |-> is_overlay_ref(t)]

\* History record of a classification: the string and the kinds found.
ClassifyOp(op, t, ret) == [op |-> op, ref |-> t, ret |-> ret]

\* The three predicates called on the string drawn.
Classify ==
    /\ lastOp.op = "input"
    /\ lastOp' = ClassifyOp("classify", lastOp.ref, Classes(lastOp.ref))
    /\ UNCHANGED <<storeVars, indexVars>>

-----------------------------------------------------------------------------
(* Resolving a reference string to a path *)

\* Paths: os.path.join(dir, ref), and the reference itself when it is
\* absolute (dir = ""). The directories: the media root, its three
\* subdirectories, the root of the project.
MEDIA_ROOT == "GlobalMedia"

Path(dir, t) == [dir |-> dir, rel |-> t]

\* None
NoPath == Path("", EmptyText)

\* "project_paths" without a "root".
NoRoot == ""

ProjectRoots == {NoRoot, "project"}

get_base_image_path(t) == Path("base_images", t)
get_base_video_path(t) == Path("base_videos", t)
get_overlay_path(t)    == Path("overlays", t)

\* os.path.isabs: a leading "/"; a leading backslash where the backslash
\* separates directories (nt).
isabs(t, nt) == t.lead = "/" \/ (nt /\ t.lead = "\\")

\* The first path of a sequence that exists, None if there is none.
RECURSIVE FirstExisting(_, _, _)
FirstExisting(paths, k, disk) ==
    IF k > Len(paths) THEN NoPath
    ELSE IF paths[k] \in disk THEN paths[k]
    ELSE FirstExisting(paths, k + 1, disk)

\* The paths resolve_media_path tests for a relative reference, in its
\* order.
PathsTried(t, root) ==
    (IF is_base_image_ref(t)
     THEN (IF StartsWithPrefix(t, "MEDIA_IMG__")
           THEN <<get_base_image_path(t)>> ELSE <<>>) \o <<Path(MEDIA_ROOT, t)>>
     ELSE <<>>)
    \o (IF is_base_video_ref(t)
        THEN (IF StartsWithPrefix(t, "MEDIA_VID__")
              THEN <<get_base_video_path(t)>> ELSE <<>>) \o <<Path(MEDIA_ROOT, t)>>
        ELSE <<>>)
    \o (IF is_overlay_ref(t)
        THEN (IF StartsWithPrefix(t, "CANVAS__")
              THEN <<get_overlay_path(t)>> ELSE <<>>) \o <<Path(MEDIA_ROOT, t)>>
        ELSE <<>>)
    \o <<Path(MEDIA_ROOT, t)>>
    \o (IF root # NoRoot THEN <<Path(root, t)>> ELSE <<>>)

\* resolve_media_path with the path in the kind's directory returned
\* untested.
ResolveKindUntested(t, root, nt, disk) ==
    IF t = EmptyText THEN NoPath
    ELSE IF isabs(t, nt)
    THEN IF Path("", t) \in disk THEN Path("", t) ELSE NoPath
    ELSE IF StartsWithPrefix(t, "MEDIA_IMG__") THEN get_base_image_path(t)
    ELSE FirstExisting(PathsTried(t, root), 1, disk)

\* resolve_media_path(ref, project_paths) on a disk with the files disk.
resolve_media_path(t, root, nt, disk) ==
    IF t = EmptyText THEN NoPath
    ELSE IF isabs(t, nt)
    THEN IF Path("", t) \in disk THEN Path("", t) ELSE NoPath
    ELSE FirstExisting(PathsTried(t, root), 1, disk)

\* The paths a reference can stand for, on disk or not.
PathsFor(t) ==
    { Path(d, t) : d \in {"", MEDIA_ROOT, "base_images", "base_videos",
                          "overlays", "project"} }

\* History record of a resolve call: its inputs and its result.
ResolveOp(op, t, root, nt, disk, ret) ==
    [op |-> op, ref |-> t, root |-> root, nt |-> nt, disk |-> disk, ret |-> ret]

\* A call of resolve_media_path on the inputs drawn.
Resolve ==
    /\ lastOp.op = "input"
    /\ lastOp' = [lastOp EXCEPT !.op = "resolve",
                     !.ret = resolve_media_path(lastOp.ref, lastOp.root,
                                                lastOp.nt, lastOp.disk)]
    /\ UNCHANGED <<storeVars, indexVars>>

-----------------------------------------------------------------------------
(* attach_media with an existing reference *)

\* The file a path leads to: the directories above the reference and the
\* segments of the reference. Where the backslash separates directories
\* (nt) it is one separator with the slash and letter case names no other
\* file.
FileAt(p, nt) ==
    LET above == IF p.dir = "" THEN <<>>
                 ELSE IF p.dir \in {MEDIA_ROOT, "project"} THEN <<Seg(p.dir)>>
                 ELSE <<Seg(MEDIA_ROOT), Seg(p.dir)>>
        t     == p.rel
    IN  [lead |-> IF p.dir = "" \/ nt THEN "/" ELSE t.lead,
         segs |-> above \o [k \in DOMAIN t.segs |->
                              IF nt THEN Seg(t.segs[k].w) ELSE t.segs[k]],
         seps |-> [k \in 1..Len(above) |-> "/"]
                  \o [k \in DOMAIN t.seps |-> IF nt THEN "/" ELSE t.seps[k]]]

\* The paths of a reference that lead to a file of the set files.
PathsOnDisk(t, nt, files) == { p \in PathsFor(t) : FileAt(p, nt) \in files }

\* os.path.basename of the path of a reference: what follows the last
\* directory separator.
basename(t, nt) ==
    LET cuts == { k \in DOMAIN t.seps : nt \/ t.seps[k] = "/" }
        from == IF cuts = {} THEN 1
                ELSE 1 + CHOOSE k \in cuts : \A j \in cuts : j <= k
    IN  Text(IF cuts = {} /\ ~nt /\ t.lead = "\\" THEN "\\" ELSE "",
             [k \in 1..(Len(t.segs) - from + 1) |-> t.segs[k + from - 1]],
             [k \in 1..(Len(t.segs) - from) |-> t.seps[k + from - 1]])

\* f"base_images/{filename}" / f"base_videos/{filename}"
UnderDir(d, name) ==
    Text("", <<Seg(d)>> \o name.segs, <<"/">> \o name.seps)

\* existing_ref.replace("\\", "/")
SlashesForward(t) ==
    Text(IF t.lead = "" THEN "" ELSE "/", t.segs, [k \in DOMAIN t.seps |-> "/"])

MediaTypes == {"image", "video"}

\* History record of a call with existing_ref: the reference, the media
\* type, the files on disk, whether the file can be read and hashed, the
\* reference returned and the reference registered (EmptyText: none).
ExistingOp(op, t, media_type, nt, files, readable, ret, registered) ==
    [op |-> op, ref |-> t, media_type |-> media_type, nt |-> nt, files |-> files,
     readable |-> readable, ret |-> ret, registered |-> registered]

\* attach_media(existing_ref=...): the reference returned and the
\* reference registered under the hash of the file.
ExistingResult(t, media_type, nt, files, readable) ==
    LET abs_path  == resolve_media_path(t, NoRoot, nt, PathsOnDisk(t, nt, files))
        canonical == IF is_base_image_ref(t) \/ is_base_video_ref(t)
                     THEN SlashesForward(t)
                     ELSE UnderDir(DirOf(media_type), basename(abs_path.rel, nt))
    IN  IF t = EmptyText \/ abs_path = NoPath
        THEN [ret |-> EmptyText, registered |-> EmptyText]
        ELSE [ret |-> canonical,
              registered |-> IF readable THEN canonical ELSE EmptyText]

\* The hash of the one file a call with existing_ref reads.
ExistingHash == _compute_file_hash([data |-> 1])

\* A call of attach_media(existing_ref=..., media_type=...) on the inputs
\* drawn: no file is written, the registry gets the entry registered.
AttachExistingRef ==
    /\ lastOp.op = "input"
    /\ LET r == ExistingResult(lastOp.ref, lastOp.media_type, lastOp.nt,
                               lastOp.files, lastOp.readable)
       IN  /\ lastOp' = [lastOp EXCEPT !.op = "attach_existing", !.ret = r.ret,
                                       !.registered = r.registered]
           /\ IF r.registered = EmptyText
              THEN UNCHANGED <<regExists, registry>>
              ELSE /\ regExists' = TRUE
                   /\ registry' = _register_media(_load_media_registry,
                                                  lastOp.media_type, ExistingHash,
                                                  r.registered)
    /\ UNCHANGED <<dirs, baseImages, baseVideos, uuidCtr, indexVars>>

-----------------------------------------------------------------------------
(* Shared media detection on an index document *)

\* Records of the index document and media fields filled in it.
MaxShared == 2
MaxHeld   == 2

\* A reference as a record holds it: the medium and the slash it is
\* written with. None is NoHeld.
NoHeld == [ref |-> NoRef, sep |-> ""]

ImgRef == BaseRef("image", generate_base_media_filename(1, ".jpg"))
VidRef == BaseRef("video", generate_base_media_filename(2, ".mp4"))
OvlRef == generate_canvas_overlay_filename("A1", RecordNr(NrStr(1)),
                                           OVERLAY_FEHLERBILD, NoIdx)

HeldRefs ==
    { [ref |-> ImgRef, sep |-> "/"], [ref |-> ImgRef, sep |-> "\\"],
      [ref |-> VidRef, sep |-> "/"] }

QueryRefs == HeldRefs \cup { [ref |-> OvlRef, sep |-> "/"] }

\* The string of a held reference.
HeldText(h) ==
    IF h = NoHeld THEN EmptyText
    ELSE [RefText(h.ref) EXCEPT !.seps = <<h.sep>>]

\* ref.replace("\\", "/")
NormRef(h) == IF h = NoHeld THEN h ELSE [h EXCEPT !.sep = "/"]

\* The media fields of a record and of a list entry, in the order
\* is_media_shared reads them.
media_fields == <<"base_image", "after_base", "raw", "edited", "after_raw",
                  "after_edited">>
entry_fields == <<"base", "raw", "edited">>
list_fields  == <<"ctx_list", "add_fehler_list", "add_after_list">>

Range(q) == { q[k] : k \in DOMAIN q }

\* The places of an index of MaxShared records where a reference can be
\* held: <<record, "", field>>, <<record, list, entry field>> of the one
\* entry of a list, <<record, "videos", "">>.
Cells ==
    { <<i, "", f>> : i \in 1..MaxShared, f \in Range(media_fields) }
    \cup { <<i, l, f>> : i \in 1..MaxShared, l \in Range(list_fields),
                         f \in Range(entry_fields) }
    \cup { <<i, "videos", "">> : i \in 1..MaxShared }

\* The ways to fill n cells.
RECURSIVE Fillings(_)
Fillings(n) ==
    IF n = 0 THEN { {} }
    ELSE { o \cup { <<c, h>> } :
             o \in Fillings(n - 1),
             c \in Cells, h \in HeldRefs }

WellFilled(o) == \A a, b \in o : a[1] = b[1] => a = b

\* The record i of the index with the filling o.
FilledRecord(i, o) ==
    LET v(l, f) == IF \E a \in o : a[1] = <<i, l, f>>
                   THEN (CHOOSE a \in o : a[1] = <<i, l, f>>)[2] ELSE NoHeld
        entries(l) == IF \E a \in o : a[1][1] = i /\ a[1][2] = l
                      THEN << [base |-> v(l, "base"), raw |-> v(l, "raw"),
                               edited |-> v(l, "edited")] >>
                      ELSE <<>>
    IN  [base_image |-> v("", "base_image"), after_base |-> v("", "after_base"),
         raw |-> v("", "raw"), edited |-> v("", "edited"),
         after_raw |-> v("", "after_raw"), after_edited |-> v("", "after_edited"),
         ctx_list |-> entries("ctx_list"),
         add_fehler_list |-> entries("add_fehler_list"),
         add_after_list |-> entries("add_after_list"),
         videos |-> IF v("videos", "") = NoHeld THEN <<>> ELSE << v("videos", "") >>]

SharedIndexes ==
    { [i \in 1..MaxShared |-> FilledRecord(i, o)] :
        o \in { x \in Fillings(MaxHeld) : WellFilled(x) } }

\* "exclude_rec is None"
NoExclude == 0

\* "rec.get(field) and rec.get(field).replace("\\", "/") == norm_ref"
FieldMatches(value, norm_ref) == value # NoHeld /\ NormRef(value) = norm_ref

\* The values is_media_shared reads in one record, in its order.
RECURSIVE EntryValues(_, _)
EntryValues(items, k) ==
    IF k > Len(items) THEN <<>>
    ELSE <<items[k].base, items[k].raw, items[k].edited>>
         \o EntryValues(items, k + 1)

ValuesRead(rec) ==
    [k \in DOMAIN media_fields |-> rec[media_fields[k]]]
    \o EntryValues(rec.ctx_list, 1) \o EntryValues(rec.add_fehler_list, 1)
    \o EntryValues(rec.add_after_list, 1) \o rec.videos

\* The values read in the records from the i-th on, records skipped by
\* "rec is exclude_rec" left out.
RECURSIVE ReadFrom(_, _, _)
ReadFrom(index, i, exclude_rec) ==
    IF i > Len(index) THEN <<>>
    ELSE (IF exclude_rec # NoExclude /\ i = exclude_rec THEN <<>>
          ELSE ValuesRead(index[i]))
         \o ReadFrom(index, i + 1, exclude_rec)

\* use_count after the first k values read.
RECURSIVE use_count(_, _, _)
use_count(values, norm_ref, k) ==
    IF k = 0 THEN 0
    ELSE use_count(values, norm_ref, k - 1)
         + (IF FieldMatches(values[k], norm_ref) THEN 1 ELSE 0)

\* is_media_shared without the "rec is exclude_rec" skip.
SharedCountsOwnRecord(index, media_ref, exclude_rec) ==
    IF media_ref = NoHeld THEN FALSE
    ELSE IF is_overlay_ref(HeldText(media_ref)) THEN FALSE
    ELSE LET values == ReadFrom(index, 1, NoExclude)
             hit(k) == /\ FieldMatches(values[k], NormRef(media_ref))
                       /\ LET n == use_count(values, NormRef(media_ref), k)
                          IN  (n > 0 /\ exclude_rec # NoExclude) \/ n > 1
         IN  \E k \in DOMAIN values : hit(k)

\* is_media_shared: the loop returns True at the first value that makes
\* use_count large enough, and False when it runs through.
is_media_shared(index, media_ref, exclude_rec) ==
    IF media_ref = NoHeld THEN FALSE
    ELSE IF is_overlay_ref(HeldText(media_ref)) THEN FALSE
    ELSE LET values == ReadFrom(index, 1, exclude_rec)
             hit(k) == /\ FieldMatches(values[k], NormRef(media_ref))
                       /\ LET n == use_count(values, NormRef(media_ref), k)
                          IN  (n > 0 /\ exclude_rec # NoExclude) \/ n > 1
         IN  \E k \in DOMAIN values : hit(k)

\* History record of a call on the index.
SharedOp(op, ref, rec, ret) == [op |-> op, ref |-> ref, rec |-> rec, ret |-> ret]

\* A call of is_media_shared (editor: the video delete button).
SharedQuery(media_ref, exclude_rec) ==
    /\ lastOp' = SharedOp("is_media_shared", media_ref, exclude_rec,
                          is_media_shared(images, media_ref, exclude_rec))
    /\ UNCHANGED <<storeVars, indexVars>>

\* safe_delete_global_media without the is_media_shared test.
SafeDeleteUnchecked(ref, current_rec, resolves) ==
    /\ resolves \/ ref.sep = "\\"
    /\ LET after == IF resolves THEN FilesAfterDelete(ref.ref)
                    ELSE [baseImages |-> baseImages, baseVideos |-> baseVideos,
                          overlays |-> overlays]
       IN  /\ baseImages' = after.baseImages
           /\ baseVideos' = after.baseVideos
           /\ overlays' = after.overlays
           /\ lastOp' = SharedOp("safe_delete", ref, current_rec,
                     <<after.baseImages, after.baseVideos, after.overlays>>
                       # <<baseImages, baseVideos, overlays>>)
    /\ UNCHANGED <<dirs, regExists, registry, uuidCtr, images, counter, errors>>

\* safe_delete_global_media(index, ref, current_rec). resolves: the
\* reference resolves to its file, which a reference written with a
\* backslash does where the backslash separates directories and does not
\* elsewhere; a reference written with "/" resolves.
safe_delete_global_media(ref, current_rec, resolves) ==
    /\ resolves \/ ref.sep = "\\"
    /\ LET refuse == /\ ~is_overlay_ref(HeldText(ref))
                      /\ is_media_shared(images, ref, current_rec)
           after  == IF refuse \/ ~resolves
                     THEN [baseImages |-> baseImages, baseVideos |-> baseVideos,
                           overlays |-> overlays]
                     ELSE FilesAfterDelete(ref.ref)
       IN  /\ baseImages' = after.baseImages
           /\ baseVideos' = after.baseVideos
           /\ overlays' = after.overlays
           /\ lastOp' = SharedOp("safe_delete", ref, current_rec,
                     <<after.baseImages, after.baseVideos, after.overlays>>
                       # <<baseImages, baseVideos, overlays>>)
    /\ UNCHANGED <<dirs, regExists, registry, uuidCtr, images, counter, errors>>

-----------------------------------------------------------------------------
(* attach_media run by two processes at once *)

Procs == {1, 2}

\* Uploads of the concurrent calls: pictures and a video.
RaceUploads ==
    { up \in Uploads : up.kind = "image" /\ Decodable(up.bytes)
                         /\ up.bytes.w = MAX_IMAGE_WIDTH }
    \cup ClipUploads

\* Position and locals of a process inside attach_media: the upload, the
\* reference of the file it wrote or found, and the registry document it
\* loaded in _register_media.
Proc(pc, up, ref, reg) == [pc |-> pc, up |-> up, ref |-> ref, reg |-> reg]

Started(p) == p \in DOMAIN procs

\* History record of a step of a process.
ProcOp(op, p) == [op |-> op, proc |-> p]

\* _attach_image / _attach_video up to the lookup: decode, hash,
\* _find_existing_by_hash_or_scan. The call returns the reference found
\* when its file exists and goes on to write a new file otherwise.
AttachLookup(p, up) ==
    /\ ~Started(p)
    /\ \A q \in DOMAIN procs : ContentHash(procs[q].up) # ContentHash(up)
    /\ \E f \in _find_existing_by_hash_or_scan(up.kind, ContentHash(up)) :
          /\ regExists' = (regExists \/ f.saved)
          /\ registry' = IF f.saved THEN f.reg ELSE registry
          /\ procs' = Extend(procs, p,
                             IF ExistingUsable(f)
                             THEN Proc("done", up, f.ref, EmptyRegistry)
                             ELSE Proc("lookup_done", up, NoRef, EmptyRegistry))
    /\ dirs' = TRUE
    /\ lastOp' = ProcOp("lookup", p)
    /\ UNCHANGED <<baseImages, baseVideos, uuidCtr, indexVars, histVars, pdfCache>>

\* "New file - save it": generate_base_media_filename, write the file.
AttachWrite(p) ==
    /\ Started(p) /\ procs[p].pc = "lookup_done"
    /\ uuidCtr < MaxUuid
    /\ LET up    == procs[p].up
           name  == generate_base_media_filename(uuidCtr + 1, StoredExt(up))
           files == WriteBase(up.kind, name, StoredBytes(up))
       IN  /\ baseImages' = files.baseImages
           /\ baseVideos' = files.baseVideos
           /\ uuidCtr' = uuidCtr + 1
           /\ procs' = [procs EXCEPT ![p].pc = "written",
                                     ![p].ref = BaseRef(up.kind, name)]
    /\ lastOp' = ProcOp("write", p)
    /\ UNCHANGED <<dirs, regExists, registry, indexVars, histVars, pdfCache>>

\* What _load_media_registry returns to process p: the document on disk,
\* or the empty registry when another process has the file open for
\* writing (json.load fails on the truncated file).
LoadedBy(p) ==
    {_load_media_registry}
    \cup { EmptyRegistry : q \in { r \in DOMAIN procs \ {p} : procs[r].pc = "loaded" } }

\* _register_media: registry = _load_media_registry()
RegisterLoad(p) ==
    /\ Started(p) /\ procs[p].pc = "written"
    /\ \E reg \in LoadedBy(p) :
          procs' = [procs EXCEPT ![p].pc = "loaded", ![p].reg = reg]
    /\ lastOp' = ProcOp("register_load", p)
    /\ UNCHANGED <<storeVars, indexVars, histVars, pdfCache>>

\* Variant: the document is written only when the file is still as it
\* was loaded.
RegisterSaveIfUnchanged(p) ==
    /\ Started(p) /\ procs[p].pc = "loaded"
    /\ IF _load_media_registry = procs[p].reg
       THEN /\ registry' = _register_media(procs[p].reg, procs[p].up.kind,
                                           ContentHash(procs[p].up), procs[p].ref)
            /\ regExists' = TRUE
       ELSE UNCHANGED <<regExists, registry>>
    /\ procs' = [procs EXCEPT ![p].pc = "done"]
    /\ lastOp' = ProcOp("register_save", p)
    /\ UNCHANGED <<dirs, baseImages, baseVideos, uuidCtr, indexVars, histVars, pdfCache>>

\* _register_media: registry[section][content_hash] = ref,
\* _save_media_registry(registry); the call returns.
RegisterSave(p) ==
    /\ Started(p) /\ procs[p].pc = "loaded"
    /\ registry' = _register_media(procs[p].reg, procs[p].up.kind,
                                   ContentHash(procs[p].up), procs[p].ref)
    /\ regExists' = TRUE
    /\ procs' = [procs EXCEPT ![p].pc = "done"]
    /\ lastOp' = ProcOp("register_save", p)
    /\ UNCHANGED <<dirs, baseImages, baseVideos, uuidCtr, indexVars, histVars, pdfCache>>

-----------------------------------------------------------------------------
(* Composition *)

COMPOSITE_QUALITY == 95

\* None returned in place of an image.
NoPicture == [pix |-> 0, w |-> 0, ink |-> "none"]

\* base_rgba.convert("RGB"): the base alone, nothing drawn on it.
BaseAlone(img) == [pix |-> img.pix, w |-> img.w, ink |-> ""]

\* Image.alpha_composite(base_rgba, overlay_rgba).convert("RGB"); the
\* overlay is resized to the base first, the size is the base's.
alpha_composite(img, bmp) == [pix |-> img.pix, w |-> img.w, ink |-> bmp]

\* Image.open(base_path) raises inside the try block: the file is no
\* readable image.
Unreadable(base_path) ==
    \/ base_path.dir # "base_images"
    \/ ~Decodable(baseImages[NameOf(base_path)])

\* Variant: the overlay is never laid over the base.
CompositeOverlayIgnored(base_path, overlay_path) ==
    IF base_path = NoRef \/ ~RefExists(base_path) THEN NoPicture
    ELSE IF Unreadable(base_path) THEN NoPicture
    ELSE BaseAlone(decode_upload_to_pil(baseImages[NameOf(base_path)]))

\* composite_base_with_overlay(base_path, overlay_path): paths are the
\* reference of the file they lead to, NoRef / NoOvl for None.
composite_base_with_overlay(base_path, overlay_path) ==
    IF base_path = NoRef \/ ~RefExists(base_path) THEN NoPicture
    ELSE IF Unreadable(base_path) THEN NoPicture
    ELSE LET base == decode_upload_to_pil(baseImages[NameOf(base_path)])
         IN  IF overlay_path # NoOvl /\ overlay_path \in DOMAIN overlays
             THEN alpha_composite(base, overlays[overlay_path])
             ELSE BaseAlone(base)

\* resolve_media_path on the references an index record holds: the path
\* when the file exists, None otherwise.
ResolveBase(ref) == IF ref # NoRef /\ RefExists(ref) THEN ref ELSE NoRef

ResolveOverlay(ref) == IF ref # NoOvl /\ ref \in DOMAIN overlays THEN ref ELSE NoOvl

\* get_composite_image_for_record(rec, paths, "main")
get_composite_image_for_record(rec) ==
    composite_base_with_overlay(ResolveBase(rec.base), ResolveOverlay(rec.overlay))

\* History record of a composition: the two paths and the image returned.
CompositeOp(base_path, overlay_path, ret) ==
    [op |-> "composite", base |-> base_path, overlay |-> overlay_path, ret |-> ret]

\* editor: composite_base_with_overlay(base_abs, overlay_abs) for display.
DisplayComposite(base_path, overlay_path) ==
    /\ lastOp' = CompositeOp(base_path, overlay_path,
                             composite_base_with_overlay(base_path, overlay_path))
    /\ UNCHANGED <<storeVars, indexVars, sideVars>>

RecordComposite(i) ==
    /\ lastOp' = CompositeOp(ResolveBase(images[i].base),
                             ResolveOverlay(images[i].overlay),
                             get_composite_image_for_record(images[i]))
    /\ UNCHANGED <<storeVars, indexVars, sideVars>>

\* Paths composition may be handed: of the files on disk, of the files
\* the records link, or None.
BasePaths == {NoRef} \cup BaseRefsOnDisk \cup { images[i].base : i \in DOMAIN images }

OverlayPaths ==
    {NoOvl} \cup DOMAIN overlays \cup { images[i].overlay : i \in DOMAIN images }

\* hashlib.md5(f"{base_abs}:{overlay_abs}"): the name of the cached file.
CacheKey(base_abs, overlay_abs) == <<base_abs, overlay_abs>>

\* pil_to_jpg(composite_img, temp_path, 95): the bytes of the cached file.
CompositeJpeg(img) ==
    [fmt |-> "JPEG", q |-> COMPOSITE_QUALITY,
     pix |-> Quantize(img.pix, COMPOSITE_QUALITY),
     w |-> downscale_to_width(img, MAX_IMAGE_WIDTH).w, ink |-> img.ink]

\* The path _get_composite_path_for_record returns: None, the base file
\* itself, or a file of PDF_CACHE.
NoFile == [at |-> "none", base |-> NoRef, key |-> CacheKey(NoRef, NoOvl)]

BaseFile(base_abs) == [at |-> "base", base |-> base_abs, key |-> CacheKey(NoRef, NoOvl)]

CacheFile(key) == [at |-> "cache", base |-> NoRef, key |-> key]

\* Variant: the composite is written over the base file it was made from.
CompositePathBaked(cache, files, entry) ==
    LET base_abs    == ResolveBase(entry.base)
        overlay_abs == ResolveOverlay(entry.overlay)
        composite   == composite_base_with_overlay(base_abs, overlay_abs)
    IN  IF base_abs = NoRef THEN [path |-> NoFile, cache |-> cache, files |-> files]
        ELSE IF overlay_abs = NoOvl \/ composite = NoPicture
             THEN [path |-> BaseFile(base_abs), cache |-> cache, files |-> files]
        ELSE [path |-> BaseFile(base_abs), cache |-> cache,
              files |-> [files EXCEPT ![NameOf(base_abs)] =
                            [fmt |-> "JPEG", q |-> COMPOSITE_QUALITY,
                             pix |-> PixStride - @.pix, w |-> @.w]]]

\* _get_composite_path_for_record for one entry (a record, or an entry
\* of ctx_list / add_fehler_list): the path returned, and PDF_CACHE and
\* base_images/ after the call. The composite is written to PDF_CACHE,
\* and only when no file has its name.
_get_composite_path_for_record(cache, files, entry) ==
    LET base_abs    == ResolveBase(entry.base)
        overlay_abs == ResolveOverlay(entry.overlay)
        composite   == composite_base_with_overlay(base_abs, overlay_abs)
        key         == CacheKey(base_abs, overlay_abs)
    IN  IF base_abs = NoRef THEN [path |-> NoFile, cache |-> cache, files |-> files]
        ELSE IF overlay_abs = NoOvl \/ composite = NoPicture
             THEN [path |-> BaseFile(base_abs), cache |-> cache, files |-> files]
        ELSE [path |-> CacheFile(key), files |-> files,
              cache |-> IF key \in DOMAIN cache THEN cache
                        ELSE Extend(cache, key, CompositeJpeg(composite))]

\* The entries of a record the export asks a composite path for: the
\* record itself, the first context image, the additional images.
ExportEntries(rec) ==
    <<[base |-> rec.base, overlay |-> rec.overlay]>>
    \o (IF rec.ctx = <<>> THEN <<>> ELSE <<rec.ctx[1]>>)
    \o rec.add

RECURSIVE ExportEntriesOf(_, _)
ExportEntriesOf(recs, i) ==
    IF i > Len(recs) THEN <<>>
    ELSE ExportEntries(recs[i]) \o ExportEntriesOf(recs, i + 1)

\* The calls of one export, in order: PDF_CACHE and base_images/ after
\* them.
RECURSIVE ExportCalls(_, _, _, _)
ExportCalls(cache, files, entries, k) ==
    IF k > Len(entries) THEN [cache |-> cache, files |-> files]
    ELSE LET r == _get_composite_path_for_record(cache, files, entries[k])
         IN  ExportCalls(r.cache, r.files, entries, k + 1)

\* build_pdf_with_modes: shutil.rmtree(PDF_CACHE, ignore_errors=True),
\* then a composite path for every entry of every record. "cleared" is
\* whether rmtree removed the files; "main" is the path returned for each
\* record's main image.
build_pdf_with_modes(cleared) ==
    LET cache0  == IF cleared THEN <<>> ELSE pdfCache
        after   == ExportCalls(cache0, baseImages, ExportEntriesOf(images, 1), 1)
    IN  /\ images # <<>>
        /\ pdfCache' = after.cache
        /\ baseImages' = after.files
        /\ lastOp' = [op |-> "export", cleared |-> cleared,
                      main |-> [i \in DOMAIN images |->
                         _get_composite_path_for_record(after.cache, baseImages,
                                                        images[i]).path]]
        /\ UNCHANGED <<dirs, baseVideos, regExists, registry, uuidCtr,
                       indexVars, procs>>

-----------------------------------------------------------------------------
Init ==
    /\ dirs = FALSE
    /\ baseImages = <<>>
    /\ baseVideos = <<>>
    /\ regExists = FALSE
    /\ registry = EmptyRegistry
    /\ uuidCtr = 0
    /\ overlays = <<>>
    /\ images = <<>>
    /\ counter = 0
    /\ errors = <<>>
    /\ pdfCache = <<>>
    /\ procs = <<>>
    /\ origin = <<>>
    /\ firstRet = <<>>
    /\ lastOp = Op("init", NoUpload, NoRef, "")

\* History of the attach calls: the first reference each upload was
\* answered with, and the upload each new base file was written for.
RecordAttach ==
    /\ firstRet' = IF Succeeded(lastOp') /\ lastOp'.up \notin DOMAIN firstRet
                   THEN Extend(firstRet, lastOp'.up, lastOp'.ret) ELSE firstRet
    /\ origin' = IF lastOp'.op = "attach" /\ lastOp'.path = "new"
                 THEN Extend(origin, lastOp'.ret, lastOp'.up) ELSE origin
    /\ UNCHANGED sideVars

\* Attach calls only, one after the other.
NextAttach ==
    \E up \in Uploads, wr \in WriteOutcomes : attach_media(up, wr) /\ RecordAttach

SpecAttach == Init /\ [][NextAttach]_vars

\* The store with the events that make the registry stale or lose it.
NextStore ==
    \/ \E up \in Uploads, wr \in WriteOutcomes :
          attach_media(up, wr) /\ UNCHANGED <<histVars, sideVars>>
    \/ \E ref \in BaseRefsOnDisk : delete_global_media(ref)
    \/ RegistryDeleted
    \/ RegistryEmptied
    \/ rebuild_media_registry

SpecStore == Init /\ [][NextStore]_vars

\* The editor: records, overlays of the three roles, renumbering, and the
\* store operations they call.
NextIndex ==
    \/ \E a \in AuditIds, up \in PhotoUploads : NewRecord(a, up) /\ UNCHANGED <<histVars, sideVars>>
    \/ \E i \in DOMAIN images, b \in Bitmaps : on_save_main(i, b) /\ UNCHANGED <<histVars, sideVars>>
    \/ \E i \in DOMAIN images : on_clear_main(i) /\ UNCHANGED <<histVars, sideVars>>
    \/ \E i \in DOMAIN images, up \in PhotoUploads :
          attach_context_images(i, up) /\ UNCHANGED <<histVars, sideVars>>
    \/ \E i \in DOMAIN images, b \in Bitmaps : on_save_ctx(i, b) /\ UNCHANGED <<histVars, sideVars>>
    \/ \E i \in DOMAIN images : on_clear_ctx(i) /\ UNCHANGED <<histVars, sideVars>>
    \/ \E i \in DOMAIN images : detach_context_image(i) /\ UNCHANGED <<histVars, sideVars>>
    \/ \E i \in DOMAIN images, up \in PhotoUploads :
          attach_additional_images(i, up, MaxSlots) /\ UNCHANGED <<histVars, sideVars>>
    \/ \E i \in DOMAIN images, sel \in 0..(MaxSlots - 1), b \in Bitmaps :
          on_save_add_pre(i, sel, b) /\ UNCHANGED <<histVars, sideVars>>
    \/ \E i \in DOMAIN images, sel \in 0..(MaxSlots - 1) :
          on_clear_add_pre(i, sel) /\ UNCHANGED <<histVars, sideVars>>
    \/ \E i \in DOMAIN images, sel \in 0..(MaxSlots - 1) :
          detach_additional_image(i, sel) /\ UNCHANGED <<histVars, sideVars>>
    \/ \E i \in DOMAIN images : DeleteRecord(i) /\ UNCHANGED <<histVars, sideVars>>
    \/ \E a \in AuditIds : reindex_audit_images(a, {}) /\ UNCHANGED <<histVars, sideVars>>
    \/ rebuild_media_registry

SpecIndex == Init /\ [][NextIndex]_vars

\* The editor together with the video upload.
NextMedia ==
    \/ NextIndex
    \/ \E up \in ClipUploads : attach_media(up, "ok") /\ UNCHANGED <<histVars, sideVars>>

SpecMedia == Init /\ [][NextMedia]_vars

\* The clearing path called with the references found in a media root the
\* editor filled: overlay references, base references, dangling ones.
ClearableRefs ==
    BaseRefsOnDisk \cup DOMAIN overlays
    \cup { images[i].overlay : i \in DOMAIN images }

NextClear ==
    \/ \E a \in AuditIds, up \in PhotoUploads : NewRecord(a, up) /\ UNCHANGED <<histVars, sideVars>>
    \/ \E i \in DOMAIN images, b \in Bitmaps : on_save_main(i, b) /\ UNCHANGED <<histVars, sideVars>>
    \/ \E i \in DOMAIN images : on_clear_main(i) /\ UNCHANGED <<histVars, sideVars>>
    \/ \E i \in DOMAIN images, up \in PhotoUploads :
          attach_context_images(i, up) /\ UNCHANGED <<histVars, sideVars>>
    \/ \E i \in DOMAIN images, b \in Bitmaps : on_save_ctx(i, b) /\ UNCHANGED <<histVars, sideVars>>
    \/ \E i \in DOMAIN images : detach_context_image(i) /\ UNCHANGED <<histVars, sideVars>>
    \/ \E up \in ClipUploads : attach_media(up, "ok") /\ UNCHANGED <<histVars, sideVars>>
    \/ \E ref \in ClearableRefs : ClearReference(ref) /\ UNCHANGED <<histVars, sideVars>>

SpecClear == Init /\ [][NextClear]_vars

\* Renumbering of records whose additional-image list has more than one
\* entry, with two bitmaps to tell the overlay files apart.
Inks == {"ink1", "ink2"}

NextRenumber ==
    \/ \E a \in AuditIds, up \in PhotoUploads : NewRecord(a, up) /\ UNCHANGED <<histVars, sideVars>>
    \/ \E i \in DOMAIN images, up \in PhotoUploads :
          attach_additional_images(i, up, MaxSlots + 1) /\ UNCHANGED <<histVars, sideVars>>
    \/ \E i \in DOMAIN images, sel \in 0..MaxSlots, b \in Inks :
          on_save_add_pre(i, sel, b) /\ UNCHANGED <<histVars, sideVars>>
    \/ \E i \in DOMAIN images : DeleteRecord(i) /\ UNCHANGED <<histVars, sideVars>>
    \/ \E a \in AuditIds : reindex_audit_images(a, {}) /\ UNCHANGED <<histVars, sideVars>>

SpecRenumber == Init /\ [][NextRenumber]_vars

\* A project with two audits: records with main and additional overlays
\* and videos, and the renumbering of either audit.
TwoAudits == {"A1", "A2"}

NextAudits ==
    \/ \E a \in TwoAudits, up \in PhotoUploads : NewRecord(a, up) /\ UNCHANGED <<histVars, sideVars>>
    \/ \E i \in DOMAIN images, b \in Bitmaps : on_save_main(i, b) /\ UNCHANGED <<histVars, sideVars>>
    \/ \E i \in DOMAIN images, up \in PhotoUploads :
          attach_additional_images(i, up, MaxSlots) /\ UNCHANGED <<histVars, sideVars>>
    \/ \E i \in DOMAIN images, sel \in 0..(MaxSlots - 1), b \in Bitmaps :
          on_save_add_pre(i, sel, b) /\ UNCHANGED <<histVars, sideVars>>
    \/ \E i \in DOMAIN images, up \in ClipUploads :
          save_camera_video(i, up) /\ UNCHANGED <<histVars, sideVars>>
    \/ \E i \in DOMAIN images : DeleteRecord(i) /\ UNCHANGED <<histVars, sideVars>>
    \/ \E a \in TwoAudits : reindex_audit_images(a, {}) /\ UNCHANGED <<histVars, sideVars>>

SpecAudits == Init /\ [][NextAudits]_vars

\* Renumbering of records with annotated additional images, with move
\* calls that raise: at most one of the first MaxMoves calls of a reindex.
MaxMoves == 4

FailSets == { f \in SUBSET (1..MaxMoves) : Cardinality(f) <= 1 }

NextFailing ==
    \/ \E a \in AuditIds, up \in PhotoUploads : NewRecord(a, up) /\ UNCHANGED <<histVars, sideVars>>
    \/ \E i \in DOMAIN images, up \in PhotoUploads :
          attach_additional_images(i, up, MaxSlots + 1) /\ UNCHANGED <<histVars, sideVars>>
    \/ \E i \in DOMAIN images, sel \in 0..MaxSlots, b \in Bitmaps :
          on_save_add_pre(i, sel, b) /\ UNCHANGED <<histVars, sideVars>>
    \/ \E i \in DOMAIN images : DeleteRecord(i) /\ UNCHANGED <<histVars, sideVars>>
    \/ \E a \in AuditIds, f \in FailSets :
          reindex_audit_images(a, f) /\ UNCHANGED <<histVars, sideVars>>

SpecFailing == Init /\ [][NextFailing]_vars

\* Renumbering after record deletes, which leave the overlay files of the
\* deleted records in overlays/: annotated main images, two bitmaps.
NextCollide ==
    \/ \E a \in AuditIds, up \in PhotoUploads : NewRecord(a, up) /\ UNCHANGED <<histVars, sideVars>>
    \/ \E i \in DOMAIN images, b \in Inks : on_save_main(i, b) /\ UNCHANGED <<histVars, sideVars>>
    \/ \E i \in DOMAIN images : DeleteRecord(i) /\ UNCHANGED <<histVars, sideVars>>
    \/ \E a \in AuditIds : reindex_audit_images(a, {}) /\ UNCHANGED <<histVars, sideVars>>

SpecCollide == Init /\ [][NextCollide]_vars

\* Records with a marked main image, the events that remove a base or an
\* overlay file behind them, compositions for display and exports.
NextCompose ==
    \/ \E a \in AuditIds, up \in PhotoUploads :
          NewRecord(a, up) /\ UNCHANGED <<histVars, sideVars>>
    \/ \E up \in PhotoUploads :
          attach_media(up, "partial") /\ UNCHANGED <<histVars, sideVars>>
    \/ \E i \in DOMAIN images, b \in Inks :
          on_save_main(i, b) /\ UNCHANGED <<histVars, sideVars>>
    \/ \E i \in DOMAIN images : on_clear_main(i) /\ UNCHANGED <<histVars, sideVars>>
    \/ \E ref \in BaseRefsOnDisk :
          delete_global_media(ref) /\ UNCHANGED <<histVars, sideVars>>
    \/ \E ref \in DOMAIN overlays :
          ClearReference(ref) /\ UNCHANGED <<histVars, sideVars>>
    \/ \E bp \in BasePaths, op \in OverlayPaths :
          DisplayComposite(bp, op) /\ UNCHANGED histVars
    \/ \E i \in DOMAIN images : RecordComposite(i) /\ UNCHANGED histVars
    \/ \E cleared \in BOOLEAN : build_pdf_with_modes(cleared) /\ UNCHANGED histVars

SpecCompose == Init /\ [][NextCompose]_vars

\* Two audits whose records are created, marked, cloned into the other
\* audit, deleted and renumbered.
NextClone ==
    \/ \E a \in TwoAudits, up \in PhotoUploads :
          NewRecord(a, up) /\ UNCHANGED <<histVars, sideVars>>
    \/ \E i \in DOMAIN images, b \in Bitmaps :
          on_save_main(i, b) /\ UNCHANGED <<histVars, sideVars>>
    \/ \E i \in DOMAIN images, up \in PhotoUploads :
          attach_additional_images(i, up, MaxSlots) /\ UNCHANGED <<histVars, sideVars>>
    \/ \E i \in DOMAIN images, sel \in 0..(MaxSlots - 1), b \in Bitmaps :
          on_save_add_pre(i, sel, b) /\ UNCHANGED <<histVars, sideVars>>
    \/ \E i \in DOMAIN images, a \in TwoAudits :
          clone_image_to_audit(i, a) /\ UNCHANGED <<histVars, sideVars>>
    \/ \E i \in DOMAIN images : DeleteRecord(i) /\ UNCHANGED <<histVars, sideVars>>
    \/ \E a \in TwoAudits :
          reindex_audit_images(a, {}) /\ UNCHANGED <<histVars, sideVars>>

SpecClone == Init /\ [][NextClone]_vars

\* One audit whose records hold up to two additional images: overlays
\* are saved and cleared for a slot, slots are detached, the audit is
\* renumbered.
NextSlots ==
    \/ \E a \in AuditIds, up \in PhotoUploads :
          NewRecord(a, up) /\ UNCHANGED <<histVars, sideVars>>
    \/ \E i \in DOMAIN images, up \in PhotoUploads :
          attach_additional_images(i, up, MaxSlots + 1) /\ UNCHANGED <<histVars, sideVars>>
    \/ \E i \in DOMAIN images, sel \in 0..MaxSlots, b \in Inks :
          on_save_add_pre(i, sel, b) /\ UNCHANGED <<histVars, sideVars>>
    \/ \E i \in DOMAIN images, sel \in 0..MaxSlots :
          on_clear_add_pre(i, sel) /\ UNCHANGED <<histVars, sideVars>>
    \/ \E i \in DOMAIN images, sel \in 0..MaxSlots :
          detach_additional_image(i, sel) /\ UNCHANGED <<histVars, sideVars>>
    \/ \E a \in AuditIds : reindex_audit_images(a, {}) /\ UNCHANGED <<histVars, sideVars>>

SpecSlots == Init /\ [][NextSlots]_vars

\* Two processes, each in one call of attach_media, their steps
\* interleaved.
NextRace ==
    \/ \E p \in Procs, up \in RaceUploads : AttachLookup(p, up)
    \/ \E p \in Procs : AttachWrite(p)
    \/ \E p \in Procs : RegisterLoad(p)
    \/ \E p \in Procs : RegisterSave(p)

SpecRace == Init /\ [][NextRace]_vars

\* An index document with references held in its media fields, the media
\* on disk, and one call on it that asks whether a medium is shared.
InitShared ==
    /\ dirs = TRUE
    /\ baseImages = (NameOf(ImgRef) :> EncodeJpeg([pix |-> 0, w |-> MAX_IMAGE_WIDTH],
                                                  JPEG_QUALITY_FULL))
    /\ baseVideos = (NameOf(VidRef) :> [data |-> 1])
    /\ regExists = FALSE
    /\ registry = EmptyRegistry
    /\ uuidCtr = 2
    /\ overlays = (OvlRef :> "ink1")
    /\ images \in SharedIndexes
    /\ counter = MaxShared
    /\ errors = <<>>
    /\ pdfCache = <<>>
    /\ procs = <<>>
    /\ origin = <<>>
    /\ firstRet = <<>>
    /\ lastOp = SharedOp("init", NoHeld, NoExclude, FALSE)

NextShared ==
    \/ \E h \in QueryRefs, r \in 0..MaxShared :
          lastOp.op = "init" /\ SharedQuery(h, r) /\ UNCHANGED <<histVars, sideVars>>
    \/ \E h \in QueryRefs, r \in 0..MaxShared, resolves \in BOOLEAN :
          /\ lastOp.op = "init"
          /\ safe_delete_global_media(h, r, resolves)
          /\ UNCHANGED <<histVars, sideVars>>

SpecShared == InitShared /\ [][NextShared]_vars

\* The classification of every reference string.
InitClassify ==
    /\ dirs = TRUE
    /\ baseImages = <<>>
    /\ baseVideos = <<>>
    /\ regExists = FALSE
    /\ registry = EmptyRegistry
    /\ uuidCtr = 0
    /\ overlays = <<>>
    /\ images = <<>>
    /\ counter = 0
    /\ errors = <<>>
    /\ pdfCache = <<>>
    /\ procs = <<>>
    /\ origin = <<>>
    /\ firstRet = <<>>
    /\ \E t \in RefTexts : lastOp = ClassifyOp("input", t, Classes(EmptyText))

NextClassify == Classify /\ UNCHANGED <<histVars, sideVars>>

SpecClassify == InitClassify /\ [][NextClassify]_vars

\* resolve_media_path on every reference string, project root and set of
\* files on disk.
InitResolve ==
    /\ dirs = TRUE
    /\ baseImages = <<>>
    /\ baseVideos = <<>>
    /\ regExists = FALSE
    /\ registry = EmptyRegistry
    /\ uuidCtr = 0
    /\ overlays = <<>>
    /\ images = <<>>
    /\ counter = 0
    /\ errors = <<>>
    /\ pdfCache = <<>>
    /\ procs = <<>>
    /\ origin = <<>>
    /\ firstRet = <<>>
    /\ \E t \in RefTexts, root \in ProjectRoots, nt \in BOOLEAN :
          \E disk \in SUBSET PathsFor(t) :
             lastOp = ResolveOp("input", t, root, nt, disk, NoPath)

NextResolve == Resolve /\ UNCHANGED <<histVars, sideVars>>

SpecResolve == InitResolve /\ [][NextResolve]_vars

\* One call of attach_media with an existing reference, for every
\* reference string, media type and set of files the string can lead to.
InitExisting ==
    /\ dirs = TRUE
    /\ baseImages = <<>>
    /\ baseVideos = <<>>
    /\ regExists = FALSE
    /\ registry = EmptyRegistry
    /\ uuidCtr = 0
    /\ overlays = <<>>
    /\ images = <<>>
    /\ counter = 0
    /\ errors = <<>>
    /\ pdfCache = <<>>
    /\ procs = <<>>
    /\ origin = <<>>
    /\ firstRet = <<>>
    /\ \E t \in RefTexts, mt \in MediaTypes, nt \in BOOLEAN, readable \in BOOLEAN :
          \E files \in SUBSET { FileAt(p, nt) : p \in PathsFor(t) } :
             lastOp = ExistingOp("input", t, mt, nt, files, readable,
                                 EmptyText, EmptyText)

NextExisting == AttachExistingRef /\ UNCHANGED <<histVars, sideVars>>

SpecExisting == InitExisting /\ [][NextExisting]_vars

-----------------------------------------------------------------------------
(* Properties of the attach pipeline *)

HashOfUpload(op) == ContentHash(op.up)

Registered(kind, h) == Lookup(_load_media_registry, kind, h)

FilesWrittenFor(up) == { r \in DOMAIN origin : origin[r] = up }

\* C1: attaching the same content again and again returns the reference
\* the first call returned, that reference is a file on disk, and no more
\* than one base file was ever written for the content.
DedupIdempotence ==
    /\ \A up \in Uploads : Cardinality(FilesWrittenFor(up)) <= 1
    /\ \A up \in DOMAIN firstRet : RefExists(firstRet[up])
    /\ Succeeded(lastOp) => lastOp.ret = firstRet[lastOp.up]

\* C1 witness: an upload whose file was written by an earlier call is
\* attached again and answered from the registry.
DedupIdempotenceWitness ==
    /\ Succeeded(lastOp) /\ lastOp.path = "fast"
    /\ FilesWrittenFor(lastOp.up) = {lastOp.ret}

\* C2: when the registry is deleted or emptied right after an upload was
\* attached, attaching the same upload again is answered with the same
\* reference and writes no new base file.
RegistryRecoverable ==
    (lastOp.op = "attach" /\ lastOp.known # NoRef)
        => /\ lastOp.path \in {"fast", "ensure_scan", "scan"}
           /\ lastOp.ret = lastOp.known

\* The registry section of a kind agrees with the base directory: every
\* file the scan reads has its hash as a key, every entry points at an
\* existing file with that hash.
RegistryMatchesDisk(kind) ==
    LET sec == registry[SectionOf(kind)]
    IN  /\ \A n \in ScannedNames(kind) : ScanHash(kind, n) \in DOMAIN sec
        /\ \A h \in DOMAIN sec :
              /\ RefExists(sec[h])
              /\ ScanHash(kind, NameOf(sec[h])) = h

\* C3: after the first attach, or a rebuild, that starts from a missing or
\* empty registry and a populated base directory, the registry agrees with
\* the base directory.
SelfHealCorrect ==
    /\ (Succeeded(lastOp) /\ lastOp.healed) => RegistryMatchesDisk(lastOp.up.kind)
    /\ (lastOp.op = "rebuild" /\ lastOp.healed)
          => RegistryMatchesDisk("image") /\ RegistryMatchesDisk("video")

\* C4: the reference attach returns resolves to an existing file whose
\* hash, computed as the scan computes it, is the hash attach computed.
RoundTripResolve ==
    Succeeded(lastOp)
        => /\ RefExists(lastOp.ret)
           /\ ScanHash(lastOp.up.kind, NameOf(lastOp.ret)) = HashOfUpload(lastOp)

\* C5: an attach that finds the hash registered to a missing file does not
\* return that reference: it writes a new file, registers the hash to it
\* and returns a reference to a file that exists.
StaleEntryReplaced ==
    (lastOp.op = "attach" /\ lastOp.stale # NoRef)
        => /\ lastOp.path \in {"new", "write_error"}
           /\ lastOp.path = "new"
                 => /\ lastOp.ret # lastOp.stale
                    /\ RefExists(lastOp.ret)
                    /\ Registered(lastOp.up.kind, HashOfUpload(lastOp)) = lastOp.ret

\* C5 witness: the attach found a stale entry and wrote a new file.
StaleEntryWitness ==
    lastOp.op = "attach" /\ lastOp.stale # NoRef /\ lastOp.path = "new"

EntriesOf(reg) ==
    { <<sec, h, reg[sec][h]>> : sec \in {"images"}, h \in DOMAIN reg["images"] }
    \cup { <<sec, h, reg[sec][h]>> : sec \in {"videos"}, h \in DOMAIN reg["videos"] }

\* C6: an attach whose write fails leaves the registration of the hash as
\* it was and registers nothing for the file it failed to write, and every
\* entry an attach adds or changes points at a file that is on disk.
WriteThenRegister ==
    [][ lastOp'.op = "attach" =>
          /\ lastOp'.path = "write_error" =>
                /\ \A e \in EntriesOf(registry') : e[3] # lastOp'.ret
                /\ Lookup(registry', lastOp'.up.kind, HashOfUpload(lastOp'))
                     = Registered(lastOp'.up.kind, HashOfUpload(lastOp'))
          /\ \A e \in EntriesOf(registry') \ EntriesOf(registry) :
                RefExists(e[3])' ]_vars

\* C6 witness: a write failed after the hash lookup had scanned and saved
\* entries for files on disk.
WriteThenRegisterWitness ==
    /\ lastOp.op = "attach" /\ lastOp.path = "write_error"
    /\ registry # EmptyRegistry

\* C7: an attach whose upload does not decode changes neither the files of
\* the media root nor the registry document.
DecodeFailureNoTrace ==
    [][ (lastOp'.op = "attach" /\ lastOp'.path = "decode_error")
          => UNCHANGED <<baseImages, baseVideos, overlays, regExists, registry>> ]_vars

\* C7 witness: a decode failure in a store that holds files.
DecodeFailureWitness ==
    /\ lastOp.op = "attach" /\ lastOp.path = "decode_error"
    /\ BaseRefsOnDisk # {}

\* C8: when the hash is registered and the registered file exists, attach
\* returns the registered reference and changes neither the base files nor
\* the registry.
FastPathWriteFree ==
    [][ LET up == lastOp'.up
            r  == Registered(up.kind, ContentHash(up))
        IN  (lastOp'.op = "attach" /\ lastOp'.path # "decode_error"
               /\ r # NoRef /\ RefExists(r))
               => /\ lastOp'.ret = r
                  /\ lastOp'.path = "fast"
                  /\ UNCHANGED <<baseImages, baseVideos, regExists, registry>> ]_vars

\* C8 witness: the fast path is taken while a file on disk has a scan hash
\* that is not registered.
FastPathWitness ==
    /\ lastOp.op = "attach" /\ lastOp.path = "fast"
    /\ \E n \in ScannedNames("image") :
          ScanHash("image", n) \notin DOMAIN registry["images"]

-----------------------------------------------------------------------------
(* Properties of base media and overlays under the editor *)

OverlayReplaceNotAccumulate ==
    [][ (lastOp'.op = "save_overlay" /\ lastOp'.old # NoOvl)
          => /\ lastOp'.new \in DOMAIN overlays'
             /\ lastOp'.old # lastOp'.new => lastOp'.old \notin DOMAIN overlays' ]_vars

\* C11: the clearing path removes a file only for a reference that
\* classifies as an overlay; called with a base image or base video
\* reference it removes nothing, and it never removes a base file.
ClearDeletesOnlyOverlays ==
    [][ lastOp'.op = "clear_reference" =>
          /\ baseImages' = baseImages /\ baseVideos' = baseVideos
          /\ ~is_overlay_ref(RefText(lastOp'.ref)) => overlays' = overlays
          /\ \A f \in DOMAIN overlays \ DOMAIN overlays' : f = lastOp'.ref ]_vars

\* C11 witness: the path was called with the reference of a base image
\* that is on disk, next to overlay files.
ClearDeletesOnlyOverlaysWitness ==
    /\ lastOp.op = "clear_reference"
    /\ is_base_image_ref(RefText(lastOp.ref))
    /\ RefExists(lastOp.ref)
    /\ DOMAIN overlays # {}

\* The overlay positions of the records (record, role, slot) and the
\* overlay linked at a position.
Positions(recs) ==
    { <<i, "main", 0>> : i \in DOMAIN recs }
    \cup UNION { { <<i, "ctx", k>> : k \in DOMAIN recs[i].ctx } : i \in DOMAIN recs }
    \cup UNION { { <<i, "add", k>> : k \in DOMAIN recs[i].add } : i \in DOMAIN recs }

LinkAt(recs, p) ==
    IF p[2] = "main" THEN recs[p[1]].overlay
    ELSE IF p[2] = "ctx" THEN recs[p[1]].ctx[p[3]].overlay
    ELSE recs[p[1]].add[p[3]].overlay

Linked(recs) == { p \in Positions(recs) : LinkAt(recs, p) # NoOvl }

\* C12: after a reindex in which no move fails, every position that
\* linked an overlay links an existing file with the content its link
\* resolved to before, and no two positions link the same file.
RenumberCollisionSafe ==
    [][ (lastOp'.op = "reindex" /\ lastOp'.fails = {}
           /\ \A p \in Linked(images) : LinkAt(images, p) \in DOMAIN overlays)
          => /\ \A p \in Linked(images) :
                   /\ LinkAt(images', p) \in DOMAIN overlays'
                   /\ overlays'[LinkAt(images', p)] = overlays[LinkAt(images, p)]
             /\ \A p, q \in Linked(images') :
                   p # q => LinkAt(images', p) # LinkAt(images', q) ]_vars

\* The base references a record holds: main image, list entries, videos.
BaseRefsOf(rec) ==
    <<rec.base, [k \in DOMAIN rec.ctx |-> rec.ctx[k].base],
      [k \in DOMAIN rec.add |-> rec.add[k].base], rec.videos>>

\* The overlay files a record links.
OverlaysOf(rec) ==
    { rec.overlay } \cup { rec.ctx[k].overlay : k \in DOMAIN rec.ctx }
                    \cup { rec.add[k].overlay : k \in DOMAIN rec.add }

ReindexPartialFailure ==
    [][ (lastOp'.op = "reindex" /\ lastOp'.fails # {})
          => /\ Len(errors') = Cardinality(lastOp'.fails)
             /\ \A k \in DOMAIN errors' :
                   errors'[k].nr.pre = ""
                     => /\ errors'[k].ref \in DOMAIN overlays'
                        /\ \E p \in Linked(images') :
                              LinkAt(images', p) = errors'[k].ref
             /\ \A p \in Linked(images) :
                   LinkAt(images, p) \in DOMAIN overlays
                     => /\ LinkAt(images', p) \in DOMAIN overlays'
                        /\ overlays'[LinkAt(images', p)] = overlays[LinkAt(images, p)]
             /\ LET order == SortedByNr(lastOp'.audit)
                IN  \A k \in DOMAIN order : images'[order[k]].nr = NrStr(k) ]_vars

\* The overlay files the records of an audit link.
LinkedFiles(recs, audit) ==
    { LinkAt(recs, p) : p \in { q \in Linked(recs) : recs[q[1]].audit = audit } }

\* C15: in a reindex, a file of overlays/ that no record of the audit
\* links stays with its content, also when it has the name computed for
\* a renamed overlay; a position that ends with a suffixed name _k links
\* the file it linked before under that name, and the names with the
\* smaller suffixes (and with none) are taken.
CollisionSuffix ==
    [][ (lastOp'.op = "reindex" /\ lastOp'.fails = {})
          => /\ \A f \in DOMAIN overlays \ LinkedFiles(images, lastOp'.audit) :
                   /\ f \in DOMAIN overlays'
                   /\ overlays'[f] = overlays[f]
             /\ \A p \in Linked(images') :
                   (LinkAt(images', p).sfx > 0 /\ LinkAt(images, p) \in DOMAIN overlays)
                     => /\ LinkAt(images', p) \in DOMAIN overlays'
                        /\ overlays'[LinkAt(images', p)] = overlays[LinkAt(images, p)]
                        /\ \A j \in 0..(LinkAt(images', p).sfx - 1) :
                              [LinkAt(images', p) EXCEPT !.sfx = j] \in DOMAIN overlays' ]_vars

\* A reindex has given a position a suffixed name because the computed
\* name belongs to another file with another content, which is still there.
CollisionSuffixWitness ==
    /\ lastOp.op = "reindex"
    /\ lastOp.moves > 0
    /\ \E p \in Linked(images) :
          LET n  == LinkAt(images, p)
              n0 == [n EXCEPT !.sfx = 0]
          IN  /\ n.sfx = 1
              /\ n \in DOMAIN overlays
              /\ n0 \in DOMAIN overlays
              /\ overlays[n0] # overlays[n]

\* A record holds a reference: one of its media fields, of the fields of
\* its list entries or of its videos has it, written with either slash.
Holds(rec, h) ==
    \E value \in { rec.base_image, rec.after_base, rec.raw, rec.edited,
                    rec.after_raw, rec.after_edited }
                  \cup UNION { { e.base, e.raw, e.edited } :
                               e \in Range(rec.ctx_list) \cup Range(rec.add_fehler_list)
                                       \cup Range(rec.add_after_list) }
                  \cup Range(rec.videos) :
        value # NoHeld /\ NormRef(value) = NormRef(h)

\* C16: when two records hold the same base medium, is_media_shared is
\* true with either of them excluded, and safe_delete_global_media called
\* for either returns False and leaves the files of the media root alone.
SharedBaseProtected ==
    [][ (/\ lastOp'.op = "safe_delete"
         /\ ~is_overlay_ref(HeldText(lastOp'.ref))
         /\ lastOp'.rec # NoExclude
         /\ Holds(images[lastOp'.rec], lastOp'.ref)
         /\ \E j \in DOMAIN images \ {lastOp'.rec} : Holds(images[j], lastOp'.ref))
          => /\ lastOp'.ret = FALSE
             /\ baseImages' = baseImages
             /\ baseVideos' = baseVideos
             /\ \A i \in DOMAIN images :
                   Holds(images[i], lastOp'.ref)
                     => is_media_shared(images, lastOp'.ref, i) ]_vars

\* safe_delete_global_media was called for a record whose base medium
\* another record holds too, and the file is on disk.
SharedBaseProtectedWitness ==
    /\ lastOp.op = "safe_delete"
    /\ lastOp.ref.ref = ImgRef
    /\ lastOp.rec # NoExclude
    /\ Holds(images[lastOp.rec], lastOp.ref)
    /\ \E j \in DOMAIN images \ {lastOp.rec} : Holds(images[j], lastOp.ref)
    /\ NameOf(ImgRef) \in DOMAIN baseImages

\* C17: for a reference that is no overlay reference and an excluded
\* record R of the index, is_media_shared answers True exactly when a
\* record other than R holds the reference.
IsSharedContract ==
    (/\ lastOp.op = "is_media_shared"
     /\ lastOp.rec # NoExclude
     /\ ~is_overlay_ref(HeldText(lastOp.ref)))
      => (lastOp.ret <=> \E j \in DOMAIN images \ {lastOp.rec} :
                            Holds(images[j], lastOp.ref))

\* is_media_shared answered False for a reference that only the
\* excluded record holds.
IsSharedContractWitness ==
    /\ lastOp.op = "is_media_shared"
    /\ lastOp.rec # NoExclude
    /\ ~is_overlay_ref(HeldText(lastOp.ref))
    /\ Holds(images[lastOp.rec], lastOp.ref)
    /\ ~lastOp.ret

\* The candidates of a reference: the reference itself when it is
\* absolute; else the file of that name in the directory of its kind when
\* it is a file name with the kind's prefix, the join under the media
\* root, and the join under the project root when one is given.
Candidates(t, root, nt) ==
    IF t = EmptyText THEN {}
    ELSE IF isabs(t, nt) THEN { Path("", t) }
    ELSE { Path(MEDIA_ROOT, t) }
         \cup (IF root # NoRoot THEN { Path(root, t) } ELSE {})
         \cup (IF StartsWithPrefix(t, "MEDIA_IMG__") THEN { Path("base_images", t) } ELSE {})
         \cup (IF StartsWithPrefix(t, "MEDIA_VID__") THEN { Path("base_videos", t) } ELSE {})
         \cup (IF StartsWithPrefix(t, "CANVAS__") THEN { Path("overlays", t) } ELSE {})

\* C18: resolve_media_path returns None or a path that is on disk; None
\* exactly when no candidate is on disk; and an absolute reference to a
\* file on disk is returned as it is.
ResolveSound ==
    lastOp.op = "resolve"
      => /\ lastOp.ret = NoPath \/ lastOp.ret \in lastOp.disk
         /\ lastOp.ret = NoPath
              <=> Candidates(lastOp.ref, lastOp.root, lastOp.nt) \cap lastOp.disk = {}
         /\ (isabs(lastOp.ref, lastOp.nt) /\ Path("", lastOp.ref) \in lastOp.disk)
              => lastOp.ret = Path("", lastOp.ref)

\* A call for a file name with the image prefix whose file is not in
\* base_images/ but under the project root, which is the path returned.
ResolveSoundWitness ==
    /\ lastOp.op = "resolve"
    /\ StartsWithPrefix(lastOp.ref, "MEDIA_IMG__")
    /\ get_base_image_path(lastOp.ref) \notin lastOp.disk
    /\ lastOp.ret = Path("project", lastOp.ref)

\* The string with every segment in the letter case of the program's
\* literals and every slash a forward slash.
Canonical(t) ==
    Text(IF t.lead = "" THEN "" ELSE "/",
         [k \in DOMAIN t.segs |-> Seg(t.segs[k].w)],
         [k \in DOMAIN t.seps |-> "/"])

\* C19: a reference string is recognised as the kinds its spelling with
\* the literals' letter case and forward slashes is recognised as, so two
\* strings that differ only in case or slash direction get one answer.
ClassifyInsensitive ==
    lastOp.op = "classify" => lastOp.ret = Classes(Canonical(lastOp.ref))

\* The overlay files the records of the index link.
AllLinks(recs) == UNION { OverlaysOf(recs[i]) : i \in DOMAIN recs } \ {NoOvl}

\* C20: after an annotation is cleared, a context or additional image is
\* detached or replaced, or a record is deleted, no overlay file that was
\* linked before and is linked no more is left in overlays/.
OverlayRemovedWithOwner ==
    [][ lastOp'.op \in {"clear_overlay", "detach_context", "detach_additional",
                        "attach_context", "delete_record"}
          => \A f \in AllLinks(images) \ AllLinks(images') :
                f \notin DOMAIN overlays' ]_vars

\* C21: a composition returns no image when the base file is missing;
\* the base alone when the base is a readable image and the overlay path
\* is absent or leads to no file; and the overlay laid over the base when
\* both files exist, and only then.
CompositeCases ==
    lastOp.op = "composite" =>
        LET baseThere == lastOp.base # NoRef /\ RefExists(lastOp.base)
            readable  == /\ baseThere
                         /\ lastOp.base.dir = "base_images"
                         /\ baseImages[NameOf(lastOp.base)].fmt \in {"PNG", "JPEG"}
            ovlThere  == lastOp.overlay # NoOvl /\ lastOp.overlay \in DOMAIN overlays
            stored    == baseImages[NameOf(lastOp.base)]
        IN  /\ ~baseThere => lastOp.ret = NoPicture
            /\ readable /\ ~ovlThere =>
                  lastOp.ret = [pix |-> stored.pix, w |-> stored.w, ink |-> ""]
            /\ readable /\ ovlThere =>
                  lastOp.ret = [pix |-> stored.pix, w |-> stored.w,
                                ink |-> overlays[lastOp.overlay]]
            /\ lastOp.ret.ink \in Inks => baseThere /\ ovlThere

CompositeCasesWitness ==
    /\ lastOp.op = "composite"
    /\ lastOp.ret.ink \in Inks
    /\ \E i \in DOMAIN images : images[i].overlay = lastOp.overlay

\* C22: a composition for display and an export leave the files of
\* base_images/, base_videos/ and overlays/ and the registry as they
\* were; what an export writes, it writes to PDF_CACHE.
CompositionReadOnly ==
    [][ lastOp'.op \in {"composite", "export"}
          => UNCHANGED <<baseImages, baseVideos, overlays, regExists, registry>> ]_vars

CompositionReadOnlyWitness ==
    /\ lastOp.op = "export"
    /\ \E i \in DOMAIN images :
          /\ lastOp.main[i].at = "cache"
          /\ lastOp.main[i].key \in DOMAIN pdfCache

\* C29: the file an export returns for the main image of a record shows
\* the overlay that is on disk for the record at that time.
ExportCompositeFresh ==
    lastOp.op = "export" =>
        \A i \in DOMAIN images :
            lastOp.main[i].at = "cache" =>
                pdfCache[lastOp.main[i].key].ink = overlays[images[i].overlay]

NumbersUnique ==
    \A i, j \in DOMAIN images :
        i # j /\ images[i].audit = images[j].audit => images[i].nr # images[j].nr

NumbersUniqueWitness ==
    /\ lastOp.op = "clone"
    /\ counter > Len(images)
    /\ \E i \in DOMAIN images : StrLess(images[i].nr, NrStr(counter - 1))

\* base_images/<name> or base_videos/<name>
IsCanonicalBaseRef(t) ==
    /\ t.lead = "" /\ Len(t.segs) = 2 /\ t.seps = <<"/">>
    /\ t.segs[1] \in {Seg("base_images"), Seg("base_videos")}

\* The reference leads to a file on the disk of the call.
ResolvesOn(t, op) ==
    resolve_media_path(t, NoRoot, op.nt, PathsOnDisk(t, op.nt, op.files)) # NoPath

\* C25: a call of attach_media with an existing reference writes no base
\* file; it returns None when the reference leads to no file; what it
\* returns otherwise is base_images/<name> or base_videos/<name> and leads
\* to a file; and the reference it registers leads to a file.
ExistingRefContract ==
    lastOp.op = "attach_existing" =>
        /\ baseImages = <<>> /\ baseVideos = <<>> /\ uuidCtr = 0
        /\ ~ResolvesOn(lastOp.ref, lastOp) => lastOp.ret = EmptyText
        /\ lastOp.ret # EmptyText =>
              IsCanonicalBaseRef(lastOp.ret) /\ ResolvesOn(lastOp.ret, lastOp)
        /\ lastOp.registered # EmptyText => ResolvesOn(lastOp.registered, lastOp)

\* C26: with no record excluded, is_media_shared answers True only for a
\* reference that two different records of the index hold.
SharedNeedsTwoRecords ==
    (lastOp.op = "is_media_shared" /\ lastOp.rec = NoExclude /\ lastOp.ret)
      => \E i, j \in DOMAIN images :
            i # j /\ Holds(images[i], lastOp.ref) /\ Holds(images[j], lastOp.ref)

\* The list entries that link an overlay.
LinkedEntries(recs) == { p \in Linked(recs) : p[2] # "main" }

\* C27: no two list entries link the same overlay file, and an overlay
\* saved for a list entry is written to no file another entry links.
NoSlotAliasing ==
    /\ [](\A p, q \in LinkedEntries(images) :
             p # q => LinkAt(images, p) # LinkAt(images, q))
    /\ [][ (lastOp'.op = "save_overlay" /\ lastOp'.role # "main")
             => \A q \in LinkedEntries(images) :
                   q # <<lastOp'.ri, lastOp'.role, lastOp'.slot + 1>>
                     => LinkAt(images, q) # lastOp'.new ]_vars

\* C28: every overlay a record links, for its main image or for an entry
\* of its lists, is a file of overlays/.
NoDanglingOverlay ==
    \A p \in Linked(images) : LinkAt(images, p) \in DOMAIN overlays


\* The registry entry of the upload of a process.
EntryOf(p) == Lookup(registry, procs[p].up.kind, ContentHash(procs[p].up))

\* C24: when two concurrent attach calls have returned, the file each of
\* them wrote is on disk and the registry is the document the process
\* that saved last had loaded, with its own entry set: what the other
\* process saved after that load is not in it.
RegistryLastWriterWins ==
    (/\ \A p \in Procs : Started(p) /\ procs[p].pc = "done"
     /\ lastOp.op = "register_save")
      => /\ \A p \in Procs : RefExists(procs[p].ref)
         /\ regExists
         /\ registry = _register_media(procs[lastOp.proc].reg,
                                       procs[lastOp.proc].up.kind,
                                       ContentHash(procs[lastOp.proc].up),
                                       procs[lastOp.proc].ref)
         /\ EntryOf(lastOp.proc) = procs[lastOp.proc].ref

\* Both calls have written a new file and returned, and the registry
\* holds the entry of the later writer only.
RegistryLastWriterWinsWitness ==
    /\ \A p \in Procs : Started(p) /\ procs[p].pc = "done" /\ RefExists(procs[p].ref)
    /\ procs[1].ref # procs[2].ref
    /\ lastOp.op = "register_save"
    /\ EntryOf(lastOp.proc) = procs[lastOp.proc].ref
    /\ \E q \in Procs \ {lastOp.proc} :
          /\ procs[q].up.kind = procs[lastOp.proc].up.kind
          /\ EntryOf(q) = NoRef

=============================================================================
